---- MODULE Spec2Model ----
(***************************************************************************)
(* documentation-mapper: the scan pipeline (DocumentationMapper), the      *)
(* registry client (PackageFetcher), the documentation crawler             *)
(* (DocumentationCrawler) and the package store (Database).                *)
(*                                                                         *)
(* Strings the code inspects character by character (versions) are         *)
(* sequences of tokens; the token "workspace:" stands for that ten         *)
(* character substring and no other token contains a part of it.           *)
(* Descriptions and cache keys are tuples of tokens, documentation         *)
(* records and store rows are records.                                     *)
(***************************************************************************)
EXTENDS Integers, Sequences, FiniteSets, TLC

(* ------------------------------ bounds -------------------------------- *)

\* Longest dependency list handed to processDependencies.
MaxDeps == 2

\* Number of operations (HTTP requests, Store operations) that may fail in
\* one scan run.
MaxFaults == 1

\* Number of direct storePackage calls in one behaviour.
MaxStoreCalls == 3

\* Number of direct crawlDocumentation calls in one behaviour.
MaxCrawlCalls == 2

\* Longest dependencies / devDependencies object of a package.json.
MaxManifestEntries == 1

\* Number of direct fetchDescription calls in one behaviour.
MaxFetchCalls == 3

(* ------------------------------ strings ------------------------------- *)

\* String.prototype.includes on token sequences.
Includes(s, sub) ==
    \E i \in 1..(Len(s) - Len(sub) + 1) : SubSeq(s, i, i + Len(sub) - 1) = sub

\* Byte order of the tokens that occur in names and versions.
TokenOrder ==
    <<"*", "10", "4", "5", "^", "alamofire", "express", "lodash", "ui-kit", "workspace:">>

TokenRank(t) == CHOOSE i \in 1..Len(TokenOrder) : TokenOrder[i] = t

\* s < t in the binary collation both backends sort by.
RECURSIVE SeqLess(_, _)
SeqLess(s, t) ==
    IF t = <<>> THEN FALSE
    ELSE IF s = <<>> THEN TRUE
    ELSE IF TokenRank(Head(s)) # TokenRank(Head(t))
         THEN TokenRank(Head(s)) < TokenRank(Head(t))
         ELSE SeqLess(Tail(s), Tail(t))

(* --------------------------- dependency records ----------------------- *)

Dep(e, n, v) ==
    [ecosystem |-> e, name |-> n, version |-> v, source |-> "registry",
     manifestPath |-> "manifest", isDevDependency |-> FALSE]

WorkspaceStar == <<"workspace:", "*">>

\* The records a dependency list is drawn from: a base record, one record
\* differing from it in each key field, two workspace records and a record
\* of an ecosystem no branch of the code supports.
DepUniverse ==
    { Dep("npm", "lodash", <<"4">>),
      Dep("npm", "lodash", <<"5">>),
      Dep("npm", "express", <<"4">>),
      Dep("pypi", "lodash", <<"4">>),
      Dep("npm", "ui-kit", WorkspaceStar),
      Dep("npm", "ui-kit", <<"workspace:", "^", "4">>),
      Dep("swift", "alamofire", <<"5">>) }

Key(r) == <<r.ecosystem, r.name, r.version>>

RECURSIVE SeqsUpTo(_, _)
SeqsUpTo(S, n) ==
    IF n = 0 THEN {<<>>}
    ELSE LET shorter == SeqsUpTo(S, n - 1)
         IN shorter \cup {Append(s, x) : s \in {t \in shorter : Len(t) = n - 1}, x \in S}

\* `${ecosystem}:${name}:${version}`
CacheKey(dep) == <<dep.ecosystem, ":", dep.name, ":">> \o dep.version

(* ------------------------------ Database ------------------------------ *)

Null == [null |-> TRUE]

EmptyObject == [empty |-> TRUE]

\* JSON.stringify of a documentation record: the text of the record.
JSONStringify(doc) == [json |-> doc]

\* The catch of the parse: the text is taken as unparseable.
JSONParseFailed(text) == EmptyObject

\* JSON.parse of a text JSON.stringify produced.
JSONParse(text) == text.json

SQLiteRow(id, p) ==
    [id |-> id, ecosystem |-> p.ecosystem, name |-> p.name, version |-> p.version,
     source |-> p.source, description |-> p.description,
     documentation |-> JSONStringify(IF p.documentation = Null THEN EmptyObject
                                     ELSE p.documentation),
     manifest_path |-> p.manifestPath,
     is_dev_dependency |-> IF p.isDevDependency THEN 1 ELSE 0,
     last_updated |-> p.lastUpdated]

\* INSERT with no conflict clause: the row is added whatever the table holds.
StorePackageSQLiteNoReplace(rows, id, p) == rows \cup {SQLiteRow(id, p)}

\* INSERT OR REPLACE under UNIQUE(ecosystem, name, version): the rows that
\* conflict with the new one are deleted and the new row gets a fresh id.
StorePackageSQLite(rows, id, p) ==
    {r \in rows : Key(r) # Key(p)} \cup {SQLiteRow(id, p)}

MongoDoc(id, p) ==
    [_id |-> id, ecosystem |-> p.ecosystem, name |-> p.name, version |-> p.version,
     source |-> p.source, description |-> p.description,
     documentation |-> p.documentation, manifestPath |-> p.manifestPath,
     isDevDependency |-> p.isDevDependency, lastUpdated |-> p.lastUpdated]

\* insertOne: a document is added whatever the collection holds.
StorePackageMongoDBInsert(docs, id, p) == docs \cup {MongoDoc(id, p)}

\* updateOne(key, {$set: packageData}, {upsert: true}): the matching document
\* keeps its _id and takes every field of packageData; without a match a new
\* document is inserted.
StorePackageMongoDB(docs, id, p) ==
    IF \E d \in docs : Key(d) = Key(p)
    THEN LET old == CHOOSE d \in docs : Key(d) = Key(p)
         IN (docs \ {old}) \cup {MongoDoc(old._id, p)}
    ELSE docs \cup {MongoDoc(id, p)}

\* A replace keyed by the name alone: every row of the package is deleted.
StorePackageClearingName(type, rows, id, p) ==
    {r \in rows : r.name # p.name}
        \cup {IF type = "sqlite" THEN SQLiteRow(id, p) ELSE MongoDoc(id, p)}

StorePackage(type, rows, id, p) ==
    IF type = "sqlite" THEN StorePackageSQLite(rows, id, p)
    ELSE StorePackageMongoDB(rows, id, p)

\* The row as connection.get / connection.all hands it back: documentation parsed.
ParsedRow(r) == [r EXCEPT !.documentation = JSONParse(r.documentation)]

\* SELECT * FROM packages WHERE name = ? AND version = ?
GetMatchesIgnoringEcosystem(rows, name, version, ecosystem) ==
    {r \in rows : r.name = name /\ r.version = version}

\* SELECT * FROM packages WHERE name = ? AND version = ? AND ecosystem = ?
\* and findOne({name, version, ecosystem}).
GetMatches(rows, name, version, ecosystem) ==
    {r \in rows : r.name = name /\ r.version = version /\ r.ecosystem = ecosystem}

\* The values getPackageDocumentation can resolve to.
GetPackageDocumentation(type, rows, name, version, ecosystem) ==
    LET m == GetMatches(rows, name, version, ecosystem)
    IN IF m = {} THEN {Null}
       ELSE IF type = "sqlite" THEN {ParsedRow(r) : r \in m}
       ELSE m

\* A filter field is applied when it is truthy; an absent field (undefined
\* or the empty string) is NoFilter, for a version NoVersion.
NoFilter == ""

NoVersion == <<>>

QueryMatchesUnfiltered(rows, filters) == rows

\* The name filter read from the field name instead of the field package.
QueryMatchesByNameField(rows, filters) ==
    {r \in rows :
        /\ filters.name # NoFilter => r.name = filters.name
        /\ filters.version # NoVersion => r.version = filters.version
        /\ filters.ecosystem # NoFilter => r.ecosystem = filters.ecosystem}

\* The WHERE clause / the find query built from filters.package,
\* filters.version and filters.ecosystem; no other field of filters is read.

QueryMatches(rows, filters) ==
    {r \in rows :
        /\ filters.package # NoFilter => r.name = filters.package
        /\ filters.version # NoVersion => r.version = filters.version
        /\ filters.ecosystem # NoFilter => r.ecosystem = filters.ecosystem}

\* ORDER BY name: the version takes no part in the order.
RowLeqByName(a, b) ==
    SeqLess(<<a.name>>, <<b.name>>) \/ a.name = b.name

\* ORDER BY name, version / sort({name: 1, version: 1})
RowLeq(a, b) ==
    \/ SeqLess(<<a.name>>, <<b.name>>)
    \/ a.name = b.name /\ (a.version = b.version \/ SeqLess(a.version, b.version))

IsSortedRows(s) == \A i \in 1..(Len(s) - 1) : RowLeq(s[i], s[i + 1])

\* The enumerations of a set, as sequences without repetition.
RECURSIVE Enumerations(_)
Enumerations(S) ==
    IF S = {} THEN {<<>>}
    ELSE UNION {{<<x>> \o s : s \in Enumerations(S \ {x})} : x \in S}

\* The lists queryPackages can resolve to: the matching rows in name, version
\* order (rows equal in both are in an order the backend chooses).
QueryPackages(type, rows, filters) ==
    LET m == QueryMatches(rows, filters)
        out == IF type = "sqlite" THEN {ParsedRow(r) : r \in m} ELSE m
    IN {s \in Enumerations(out) : IsSortedRows(s)}

(* ------------------------------- state -------------------------------- *)

VARIABLES
    dbType,           \* Database.type: "sqlite" or "mongodb"
    firecrawlApiKey,  \* DocumentationCrawler.firecrawlApiKey is set
    skipDocs,         \* DocumentationMapper.skipDocs
    store,            \* the packages table / collection
    lastID,           \* the last row id (AUTOINCREMENT) or document _id handed out
    clock,            \* the clock the timestamps are read from
    faultLimit,       \* failures after which the environment fails no further operation
    dbFaults,         \* Store operations that raised so far
    httpFaults,       \* HTTP requests that failed in this run
    pc,               \* position of the CLI / processDependencies
    deps,             \* processDependencies: the dependencies argument
    idx,              \* processDependencies: index of the record of the loop
    results,          \* processDependencies: results
    description,      \* processDependencies: description of the record
    documentation,    \* processDependencies: documentation of the record
    fetcherCache,     \* PackageFetcher.cache
    fpc,              \* position of fetchDescription
    fdep,             \* fetchDescription: its argument
    fret,             \* fetchDescription: the value it resolved to
    crawlerCache,     \* DocumentationCrawler.cache
    cpc,              \* position of crawlDocumentation
    cdep,             \* crawlDocumentation: its argument
    cmode,            \* crawlDocumentation: "firecrawl" or "basic" path
    docUrl,           \* crawlWithFirecrawl / fetchBasicDocumentation: docUrl
    attempt,          \* fetchBasicDocumentation: attempt
    cret,             \* crawlDocumentation: the value it resolved to
    inflight,         \* HTTP requests sent and not yet answered
    queryResult,      \* the filters and the list of the last queryPackages
    getResult,        \* the key and the value of the last direct getPackageDocumentation
    input,            \* the scan command's <input> argument, as read from disk
    manifestFiles,    \* DependencyScanner.scan: manifestFiles
    log               \* events of the current run, in order

\* What no step of a scan changes: the configuration, the clock within one
\* run, the fault limit, the value of a direct lookup.
cfgVars == <<dbType, firecrawlApiKey, skipDocs, clock, faultLimit, getResult, input,
            manifestFiles>>
dbVars == <<store, lastID>>
loopVars == <<deps, idx, results, description, documentation>>
fetcherVars == <<fetcherCache, fpc, fdep, fret>>
crawlerVars == <<crawlerCache, cpc, cdep, cmode, docUrl, attempt, cret>>

vars == <<dbType, firecrawlApiKey, skipDocs, store, lastID, clock, faultLimit, dbFaults,
          httpFaults,
          pc, deps, idx, results, description, documentation,
          fetcherCache, fpc, fdep, fret,
          crawlerCache, cpc, cdep, cmode, docUrl, attempt, cret,
          inflight, queryResult, getResult, input, manifestFiles, log>>

EmptyCache == <<>>

NoDep == Dep("", "", <<>>)

Event(kind) == [rec |-> idx, ev |-> kind]

StoreKeys == {Key(r) : r \in store}

\* No list of a query command is at hand.
NoQuery == [filters |-> Null, rows |-> <<>>]

\* The environment may fail one more HTTP request or Store operation.
MayFail == faultLimit < 0 \/ dbFaults + httpFaults < faultLimit

(* -------------------------- DocumentationMapper ----------------------- *)

\* The test without its second disjunct.
IsWorkspaceExact(dep) == dep.version = WorkspaceStar

\* dep.version === 'workspace:*' || dep.version?.includes('workspace:')
IsWorkspace(dep) ==
    dep.version = WorkspaceStar \/ Includes(dep.version, <<"workspace:">>)

WorkspaceResult(dep, now) ==
    [ecosystem |-> dep.ecosystem, name |-> dep.name, version |-> dep.version,
     description |-> <<"Internal workspace package: ", dep.name>>,
     documentation |-> [note |-> "Workspace package - no external documentation available"],
     source |-> dep.source, manifestPath |-> dep.manifestPath,
     isDevDependency |-> dep.isDevDependency, lastUpdated |-> now]

PackageData(dep, desc, doc, now) ==
    [ecosystem |-> dep.ecosystem, name |-> dep.name, version |-> dep.version,
     source |-> dep.source, description |-> desc, documentation |-> doc,
     manifestPath |-> dep.manifestPath, isDevDependency |-> dep.isDevDependency,
     lastUpdated |-> now]

ErrorResult(dep, message) ==
    [ecosystem |-> dep.ecosystem, name |-> dep.name, version |-> dep.version,
     error |-> message]

\* A JSON array / a JSON object that is no array.
JsonArray(items) == [array |-> items]

JsonObject(fields) == [object |-> fields]

\* Array.isArray(v)
IsArray(v) == "array" \in DOMAIN v

\* One element of the dependencies array of a dependency scan file.
JsonEntry(dep) ==
    [ecosystem |-> dep.ecosystem,
     dependency |-> [name |-> dep.name, version |-> dep.version, source |-> dep.source],
     manifest_path |-> dep.manifestPath,
     metadata |-> [dev_dependency |-> dep.isDevDependency]]

\* The parsed content of a dependency scan file listing ds.
ScanFile(ds) ==
    [scanner |-> "dependency-scan",
     dependencies |-> JsonArray([i \in 1..Len(ds) |-> JsonEntry(ds[i])])]

\* Files whose top level has no dependencies array: the key is missing, is
\* null, or holds an object keyed by package name.
MalformedFiles ==
    { [scanner |-> "dependency-scan"],
      [scanner |-> "dependency-scan", dependencies |-> Null],
      [scanner |-> "dependency-scan", dependencies |-> JsonObject(<<"lodash">>)] }

\* The JSON files the scan command is run on.
JsonFiles == {ScanFile(ds) : ds \in SeqsUpTo(DepUniverse, MaxDeps)} \cup MalformedFiles

\* !data.dependencies || !Array.isArray(data.dependencies)
LacksDependenciesArray(data) ==
    \/ "dependencies" \notin DOMAIN data
    \/ data.dependencies = Null
    \/ ~IsArray(data.dependencies)

\* A missing dependencies key is read as an empty list.
LoadDependenciesLenient(data) ==
    IF LacksDependenciesArray(data)
    THEN [value |-> <<>>]
    ELSE LET items == data.dependencies.array
         IN [value |-> [i \in 1..Len(items) |->
                 [ecosystem |-> items[i].ecosystem,
                  name |-> items[i].dependency.name,
                  version |-> items[i].dependency.version,
                  source |-> items[i].dependency.source,
                  manifestPath |-> items[i].manifest_path,
                  isDevDependency |-> items[i].metadata.dev_dependency]]]

\* loadDependenciesFromJSON on the parsed content: the list, or the error thrown.
LoadDependenciesFromJSON(data) ==
    IF LacksDependenciesArray(data)
    THEN [error |-> "Invalid JSON format: missing dependencies array"]
    ELSE LET items == data.dependencies.array
         IN [value |-> [i \in 1..Len(items) |->
                 [ecosystem |-> items[i].ecosystem,
                  name |-> items[i].dependency.name,
                  version |-> items[i].dependency.version,
                  source |-> items[i].dependency.source,
                  manifestPath |-> items[i].manifest_path,
                  isDevDependency |-> items[i].metadata.dev_dependency]]]

\* The scan command on a JSON file: the process loads the dependency list
\* and calls processDependencies with it; an error thrown by the load is
\* caught by the command, which exits with status 1.
ScanStart ==
    /\ pc = "idle"
    /\ \E data \in JsonFiles :
        /\ input' = [kind |-> "json", data |-> data]
        /\ LET loaded == LoadDependenciesFromJSON(data)
           IN IF "error" \in DOMAIN loaded
              THEN /\ pc' = "aborted"
                   /\ UNCHANGED deps
              ELSE /\ pc' = "loop"
                   /\ deps' = loaded.value
    /\ queryResult' = NoQuery
    /\ UNCHANGED <<dbType, firecrawlApiKey, skipDocs, clock, faultLimit, getResult,
                   manifestFiles, dbVars, dbFaults, httpFaults, idx, results, description,
                   documentation, fetcherVars, crawlerVars, inflight, log>>

\* The workspace branch goes to the next record without a result.
LoopHeadNoWorkspaceResult ==
    /\ pc = "loop"
    /\ IF idx > Len(deps)
       THEN /\ pc' = "done"
            /\ UNCHANGED <<idx, results, log>>
       ELSE IF IsWorkspace(deps[idx])
       THEN /\ idx' = idx + 1
            /\ log' = Append(log, Event("workspace"))
            /\ pc' = "loop"
            /\ UNCHANGED results
       ELSE /\ pc' = "get"
            /\ UNCHANGED <<idx, results, log>>
    /\ UNCHANGED <<cfgVars, dbVars, dbFaults, httpFaults, deps, description,
                   documentation, fetcherVars, crawlerVars, inflight, queryResult>>

\* for (const dep of dependencies): the end of the list, a workspace record,
\* or the start of the work on a record.
LoopHead ==
    /\ pc = "loop"
    /\ IF idx > Len(deps)
       THEN /\ pc' = "done"
            /\ UNCHANGED <<idx, results, log>>
       ELSE IF IsWorkspace(deps[idx])
       THEN /\ results' = Append(results, WorkspaceResult(deps[idx], clock))
            /\ idx' = idx + 1
            /\ log' = Append(log, Event("workspace"))
            /\ pc' = "loop"
       ELSE /\ pc' = "get"
            /\ UNCHANGED <<idx, results, log>>
    /\ UNCHANGED <<cfgVars, dbVars, dbFaults, httpFaults, deps, description,
                   documentation, fetcherVars, crawlerVars, inflight, queryResult>>

\* The catch block of the loop body ends the batch instead of the record.
ProcessCatchBreak(message) ==
    /\ results' = Append(results, ErrorResult(deps[idx], message))
    /\ log' = Append(log, Event("failed"))
    /\ idx' = Len(deps) + 1
    /\ pc' = "loop"

\* catch (error) of the loop body: an error-tagged result, then the next record.
ProcessCatch(message) ==
    /\ results' = Append(results, ErrorResult(deps[idx], message))
    /\ log' = Append(log, Event("failed"))
    /\ idx' = idx + 1
    /\ pc' = "loop"

\* await this.database.getPackageDocumentation(dep.name, dep.version, dep.ecosystem)
DbGet ==
    /\ pc = "get"
    /\ \/ /\ MayFail
          /\ dbFaults' = dbFaults + 1
          /\ ProcessCatch("database error")
       \/ /\ UNCHANGED dbFaults
          /\ \E existing \in GetPackageDocumentation(dbType, store, deps[idx].name,
                                                     deps[idx].version, deps[idx].ecosystem) :
                IF existing # Null
                THEN /\ results' = Append(results, existing)
                     /\ log' = Append(log, Event("get") @@ [found |-> TRUE])
                     /\ idx' = idx + 1
                     /\ pc' = "loop"
                ELSE /\ log' = Append(log, Event("get") @@ [found |-> FALSE])
                     /\ pc' = "fetch"
                     /\ UNCHANGED <<idx, results>>
    /\ UNCHANGED <<cfgVars, dbVars, httpFaults, deps, description, documentation,
                   fetcherVars, crawlerVars, inflight, queryResult>>

(* ----------------------------- PackageFetcher ------------------------- *)

\* name.startsWith('github.com/') with at least owner and repository parts.
GithubNames == {"github.com/gin-gonic/gin"}

\* Names of the form groupId:artifactId.
MavenCoordinates == {"org.junit:junit"}

\* The branch of the switch of fetchDescription, and within it the shape of
\* the work: "static" branches issue no request.
FetchKind(dep) ==
    CASE dep.ecosystem = "npm" -> "npm"
      [] dep.ecosystem \in {"python", "pypi"} -> "pypi"
      [] dep.ecosystem = "rust" -> "crates"
      [] dep.ecosystem = "java" ->
            IF dep.name \in MavenCoordinates THEN "maven" ELSE "maven-invalid"
      [] dep.ecosystem = "ruby" -> "rubygems"
      [] dep.ecosystem = "go" ->
            IF dep.name \in GithubNames THEN "github" ELSE "go-static"
      [] dep.ecosystem = "dotnet" -> "nuget"
      [] dep.ecosystem = "php" -> "packagist"
      [] OTHER -> "unsupported"

\* The default branch throws instead of degrading.
StaticDescriptionThrowing(dep) ==
    CASE FetchKind(dep) = "maven-invalid" -> <<"Invalid Maven coordinate format">>
      [] FetchKind(dep) = "go-static" -> <<"Go module ", dep.name, "@">> \o dep.version
      [] OTHER -> <<"Failed to fetch description: ", "Unsupported ecosystem">>

StaticDescription(dep) ==
    CASE FetchKind(dep) = "maven-invalid" -> <<"Invalid Maven coordinate format">>
      [] FetchKind(dep) = "go-static" -> <<"Go module ", dep.name, "@">> \o dep.version
      [] OTHER -> <<"Package from ", dep.ecosystem, " ecosystem">>

\* The description a 2xx registry response yields.
RegistryDescription(dep) == <<"description of ", dep.name>>

FailurePrefix(dep) ==
    CASE FetchKind(dep) = "npm" -> "NPM fetch failed"
      [] FetchKind(dep) = "pypi" -> "PyPI fetch failed"
      [] FetchKind(dep) = "crates" -> "Crates.io fetch failed"
      [] FetchKind(dep) = "maven" -> "Maven fetch failed"
      [] FetchKind(dep) = "rubygems" -> "RubyGems fetch failed"
      [] FetchKind(dep) = "nuget" -> "NuGet fetch failed"
      [] FetchKind(dep) = "packagist" -> "Packagist fetch failed"
      [] OTHER -> "Go fetch failed"

FailedDescription(dep) == <<"Failed to fetch description: ", FailurePrefix(dep)>>

Request(who, what) == [rec |-> idx, by |-> who, to |-> what]

\* this.cache.set(cacheKey, description); return description
FetchReturnCached(dep, desc) ==
    /\ fetcherCache' = (CacheKey(dep) :> desc) @@ fetcherCache
    /\ fret' = desc
    /\ fpc' = "ret"

\* The error leaves fetchDescription and ends the batch.
FetchDescriptionRethrow(dep) ==
    /\ fret' = <<>>
    /\ fpc' = "idle"
    /\ pc' = "done"
    /\ UNCHANGED fetcherCache

\* The placeholder of the catch block is put in the cache.
FetchDescriptionCatchCaching(dep) ==
    /\ fetcherCache' = (CacheKey(dep) :> FailedDescription(dep)) @@ fetcherCache
    /\ fret' = FailedDescription(dep)
    /\ fpc' = "ret"
    /\ UNCHANGED pc

\* catch (error) of fetchDescription: a placeholder string, nothing cached.
FetchDescriptionCatch(dep) ==
    /\ fret' = FailedDescription(dep)
    /\ fpc' = "ret"
    /\ UNCHANGED <<fetcherCache, pc>>

\* fetchDescription(dependency), up to its first await.
FetchCall(dep) ==
    /\ fpc = "idle"
    /\ fdep' = dep
    /\ IF CacheKey(dep) \in DOMAIN fetcherCache
       THEN /\ fret' = fetcherCache[CacheKey(dep)]
            /\ fpc' = "ret"
            /\ log' = Append(log, Event("fetch-call"))
            /\ UNCHANGED <<fetcherCache, inflight>>
       ELSE IF FetchKind(dep) \in {"unsupported", "go-static", "maven-invalid"}
       THEN /\ FetchReturnCached(dep, StaticDescription(dep))
            /\ log' = Append(log, Event("fetch-call"))
            /\ UNCHANGED inflight
       ELSE /\ inflight' = inflight \cup {Request("fetcher", "registry")}
            /\ log' = Append(Append(log, Event("fetch-call")), Event("fetch-request"))
            /\ fpc' = "wait1"
            /\ UNCHANGED <<fetcherCache, fret>>

\* const description = await this.fetcher.fetchDescription(dep), the call.
FetchStart ==
    /\ pc = "fetch"
    /\ FetchCall(deps[idx])
    /\ UNCHANGED <<cfgVars, dbVars, dbFaults, httpFaults, pc, loopVars,
                   crawlerVars, queryResult>>

\* Every registry is asked a second time after a failure.
TriesWithoutVersionAnyRegistry(dep) == FetchKind(dep) \notin {"unsupported"}

\* The fetch function of the record answers a failed request with a second
\* one: only fetchPyPIDescription does ("Try without version").
TriesWithoutVersion(dep) == FetchKind(dep) = "pypi"

\* The registry answers the request of fetchDescription.
FetchRespond ==
    /\ fpc \in {"wait1", "wait2"}
    /\ \E r \in inflight :
        /\ r.by = "fetcher"
        /\ \/ /\ inflight' = inflight \ {r}
              /\ FetchReturnCached(fdep, RegistryDescription(fdep))
              /\ log' = Append(log, Event("fetch-response"))
              /\ UNCHANGED <<httpFaults, pc>>
           \/ /\ MayFail
              /\ httpFaults' = httpFaults + 1
              /\ IF TriesWithoutVersion(fdep) /\ fpc = "wait1"
                 THEN \* Try without version
                      /\ inflight' = (inflight \ {r}) \cup {Request("fetcher", "registry-fallback")}
                      /\ log' = Append(log, Event("fetch-request"))
                      /\ fpc' = "wait2"
                      /\ UNCHANGED <<fetcherCache, fret, pc>>
                 ELSE IF FetchKind(fdep) = "github"
                 THEN /\ inflight' = inflight \ {r}
                      /\ FetchReturnCached(fdep, <<"GitHub Go module ", fdep.name>>)
                      /\ log' = Append(log, Event("fetch-failed"))
                      /\ UNCHANGED pc
                 ELSE /\ inflight' = inflight \ {r}
                      /\ FetchDescriptionCatch(fdep)
                      /\ log' = Append(log, Event("fetch-failed"))
    /\ UNCHANGED <<cfgVars, dbVars, dbFaults, loopVars, fdep, crawlerVars, queryResult>>

\* ... = await this.fetcher.fetchDescription(dep), the value; with skipDocs
\* the documentation is the fixed note and the crawler is not called.
FetchAwait ==
    /\ pc = "fetch"
    /\ fpc = "ret"
    /\ description' = fret
    /\ fpc' = "idle"
    /\ IF skipDocs
       THEN /\ documentation' = [note |-> "Documentation fetching disabled"]
            /\ pc' = "store"
       ELSE /\ pc' = "crawl"
            /\ UNCHANGED documentation
    /\ UNCHANGED <<cfgVars, dbVars, dbFaults, httpFaults, deps, idx, results,
                   fetcherCache, fdep, fret, crawlerVars, inflight, queryResult, log>>

(* -------------------------- DocumentationCrawler ---------------------- *)

NoUrl == <<>>

NpmPackagePage(dep) == <<"https://www.npmjs.com/package/", dep.name>>

GithubRepository(dep) == <<"https://github.com/", dep.name>>

\* response.data.repository.url of the registry metadata of an npm package:
\* a repository on github.com, a repository on another host, or none.
DeclaredRepository(name) ==
    CASE name = "lodash" -> <<"git+", "https://github.com/", name, ".git">>
      [] name = "express" -> <<"git+", "https://gitlab.com/", name, ".git">>
      [] OTHER -> NoUrl

\* repoUrl.replace(/^git\+/, '').replace(/\.git$/, '')
StripGitAffixes(url) ==
    LET u == IF url # <<>> /\ Head(url) = "git+" THEN Tail(url) ELSE url
    IN IF u # <<>> /\ u[Len(u)] = ".git" THEN SubSeq(u, 1, Len(u) - 1) ELSE u

\* repoUrl.includes('github.com')
IncludesGithub(url) == \E k \in 1..Len(url) : url[k] = "https://github.com/"

\* Every declared repository is returned, whatever its host.
NpmDocUrlAnyHost(dep) ==
    IF DeclaredRepository(dep.name) # NoUrl
    THEN StripGitAffixes(DeclaredRepository(dep.name))
    ELSE NpmPackagePage(dep)

\* The npm branch of getDocumentationUrl once the registry has answered.
NpmDocUrl(dep) ==
    IF /\ DeclaredRepository(dep.name) # NoUrl
       /\ IncludesGithub(StripGitAffixes(DeclaredRepository(dep.name)))
    THEN StripGitAffixes(DeclaredRepository(dep.name))
    ELSE NpmPackagePage(dep)

\* getDocumentationUrl for the ecosystems whose rule needs no request.
StaticDocUrl(dep) ==
    CASE dep.ecosystem \in {"python", "pypi"} ->
            <<"https://pypi.org/project/", dep.name, "/">> \o dep.version
      [] dep.ecosystem = "rust" -> <<"https://docs.rs/", dep.name, "/">> \o dep.version
      [] dep.ecosystem = "java" ->
            <<"https://mvnrepository.com/artifact/", dep.name, "/">> \o dep.version
      [] dep.ecosystem = "ruby" ->
            <<"https://rubygems.org/gems/", dep.name, "/versions/">> \o dep.version
      [] dep.ecosystem = "go" ->
            IF dep.name \in GithubNames THEN <<"https://", dep.name>>
            ELSE <<"https://pkg.go.dev/", dep.name, "@">> \o dep.version
      [] dep.ecosystem = "dotnet" ->
            <<"https://www.nuget.org/packages/", dep.name, "/">> \o dep.version
      [] dep.ecosystem = "php" -> <<"https://packagist.org/packages/", dep.name>>
      [] OTHER -> NoUrl

NoUrlNote == [note |-> "No documentation URL available for this ecosystem/package"]

FirecrawlRecord(url, now) ==
    [url |-> url, content |-> <<"markdown of ">> \o url, crawled_at |-> now,
     source |-> "firecrawl"]

BasicRecord(url, now) ==
    [url |-> url, content |-> <<"text of ">> \o url, crawled_at |-> now,
     source |-> "basic_fetch",
     note |-> "Basic HTML text extraction - consider using Firecrawl API for better results"]

\* The record of a failed GET carries no error field.
FetchErrorRecordUntagged(url, message, now) ==
    [url |-> url, crawled_at |-> now]

FetchErrorRecord(url, message, now) ==
    [url |-> url, error |-> <<"Failed to fetch documentation: ", message>>,
     crawled_at |-> now]

\* The answers to the GET of the documentation page: a page, or an error
\* with a response status, or an error without a response.
RawOutcomes == {"200", "403", "429", "timeout"}

MaxAttempts == 3

\* The retry test without the status: any failed attempt but the last retries.
ShouldRetryAnyError(outcome, n) == outcome # "200" /\ n < MaxAttempts

\* The retry test without the bound on the attempts.
ShouldRetryEveryForbidden(outcome, n) == outcome = "403"

\* error.response && error.response.status === 403 && attempt < 3
ShouldRetry(outcome, n) == outcome = "403" /\ n < MaxAttempts

\* The value is returned without this.cache.set.
CrawlReturnUncached(dep, doc) ==
    /\ cret' = doc
    /\ cpc' = "ret"
    /\ UNCHANGED crawlerCache

\* this.cache.set(cacheKey, documentation); return documentation
CrawlReturn(dep, doc) ==
    /\ crawlerCache' = (CacheKey(dep) :> doc) @@ crawlerCache
    /\ cret' = doc
    /\ cpc' = "ret"

\* getDocumentationUrl(dependency), up to its await: npm asks the registry
\* for the repository of the package, the other ecosystems have a fixed rule.
GetDocumentationUrl(dep) ==
    IF dep.ecosystem = "npm"
    THEN /\ inflight' = inflight \cup {Request("crawler", "npm-registry")}
         /\ log' = Append(Append(log, Event("crawl-call")), Event("crawl-request"))
         /\ cpc' = "url"
         /\ UNCHANGED docUrl
    ELSE /\ docUrl' = StaticDocUrl(dep)
         /\ cpc' = "haveUrl"
         /\ log' = Append(log, Event("crawl-call"))
         /\ UNCHANGED inflight

\* crawlDocumentation(dependency), up to its first await.
CrawlCall(dep) ==
    /\ cpc = "idle"
    /\ cdep' = dep
    /\ IF CacheKey(dep) \in DOMAIN crawlerCache
       THEN /\ cret' = crawlerCache[CacheKey(dep)]
            /\ cpc' = "ret"
            /\ log' = Append(log, Event("crawl-call"))
            /\ UNCHANGED <<crawlerCache, cmode, docUrl, attempt, inflight>>
       ELSE /\ cmode' = IF firecrawlApiKey THEN "firecrawl" ELSE "basic"
            /\ GetDocumentationUrl(dep)
            /\ UNCHANGED <<crawlerCache, attempt, cret>>

\* crawlDocumentation is called and not awaited: the loop goes on while the
\* crawler works.
CrawlStartNoAwait ==
    /\ pc = "crawl"
    /\ CrawlCall(deps[idx])
    /\ pc' = "store"
    /\ UNCHANGED <<cfgVars, dbVars, dbFaults, httpFaults, loopVars, fetcherVars,
                   queryResult>>

\* documentation = await this.crawler.crawlDocumentation(dep), the call.
CrawlStart ==
    /\ pc = "crawl"
    /\ CrawlCall(deps[idx])
    /\ UNCHANGED <<cfgVars, dbVars, dbFaults, httpFaults, pc, loopVars,
                   fetcherVars, queryResult>>

\* The npm registry answers getDocumentationUrl with the metadata of the
\* package, or the request fails.
UrlRespond ==
    /\ cpc = "url"
    /\ \E r \in inflight :
        /\ r.by = "crawler"
        /\ inflight' = inflight \ {r}
        /\ \/ /\ docUrl' = NpmDocUrl(cdep)
              /\ UNCHANGED httpFaults
           \/ /\ MayFail
              /\ httpFaults' = httpFaults + 1
              /\ docUrl' = NpmPackagePage(cdep)
    /\ cpc' = "haveUrl"
    /\ log' = Append(log, Event("crawl-response"))
    /\ UNCHANGED <<cfgVars, dbVars, dbFaults, pc, loopVars, fetcherVars,
                   crawlerCache, cdep, cmode, attempt, cret, queryResult>>

\* An event of the exchange with the scraping service.
ScrapeEvent(kind) == Event(kind) @@ [to |-> "firecrawl"]

\* crawlWithFirecrawl / fetchBasicDocumentation once docUrl is known: the
\* note without a URL, else the scrape request or the first GET.
UrlKnown ==
    /\ cpc = "haveUrl"
    /\ IF docUrl = NoUrl
       THEN /\ CrawlReturn(cdep, NoUrlNote)
            /\ UNCHANGED <<attempt, inflight, log>>
       ELSE IF cmode = "firecrawl"
       THEN /\ inflight' = inflight \cup {Request("crawler", "firecrawl")}
            /\ log' = Append(log, ScrapeEvent("crawl-request"))
            /\ cpc' = "scrape"
            /\ UNCHANGED <<crawlerCache, attempt, cret>>
       ELSE /\ attempt' = 1
            /\ inflight' = inflight \cup {Request("crawler", "page")}
            /\ log' = Append(log, Event("crawl-request") @@ [attempt |-> 1])
            /\ cpc' = "attempt"
            /\ UNCHANGED <<crawlerCache, cret>>
    /\ UNCHANGED <<cfgVars, dbVars, dbFaults, httpFaults, pc, loopVars,
                   fetcherVars, cdep, cmode, docUrl, queryResult>>

\* The failure of the scraping service is the result of the crawl: no
\* fallback to fetchBasicDocumentation.
FirecrawlRespondNoFallback ==
    /\ cpc = "scrape"
    /\ \E r \in inflight :
        /\ r.by = "crawler"
        /\ inflight' = inflight \ {r}
        /\ \/ /\ CrawlReturn(cdep, FirecrawlRecord(docUrl, clock))
              /\ log' = Append(log, ScrapeEvent("crawl-response"))
              /\ UNCHANGED httpFaults
           \/ /\ MayFail
              /\ httpFaults' = httpFaults + 1
              /\ CrawlReturnUncached(cdep, [error |-> <<"Firecrawl request failed">>,
                                            crawled_at |-> clock])
              /\ log' = Append(log, ScrapeEvent("crawl-failed"))
    /\ UNCHANGED <<cfgVars, dbVars, dbFaults, pc, loopVars, fetcherVars,
                   cdep, cmode, docUrl, attempt, queryResult>>

\* The scraping service answers: success, or a failure (an HTTP error or
\* success: false) that falls back to fetchBasicDocumentation.
FirecrawlRespond ==
    /\ cpc = "scrape"
    /\ \E r \in inflight :
        /\ r.by = "crawler"
        /\ \/ /\ inflight' = inflight \ {r}
              /\ CrawlReturn(cdep, FirecrawlRecord(docUrl, clock))
              /\ log' = Append(log, ScrapeEvent("crawl-response"))
              /\ UNCHANGED <<httpFaults, cmode, docUrl>>
           \/ /\ MayFail
              /\ httpFaults' = httpFaults + 1
              /\ cmode' = "basic"
              /\ IF cdep.ecosystem = "npm"
                 THEN /\ inflight' = (inflight \ {r}) \cup {Request("crawler", "npm-registry")}
                      /\ log' = Append(Append(log, ScrapeEvent("crawl-failed")),
                                       Event("crawl-request"))
                      /\ cpc' = "url"
                      /\ UNCHANGED docUrl
                 ELSE /\ inflight' = inflight \ {r}
                      /\ log' = Append(log, ScrapeEvent("crawl-failed"))
                      /\ docUrl' = StaticDocUrl(cdep)
                      /\ cpc' = "haveUrl"
              /\ UNCHANGED <<crawlerCache, cret>>
    /\ UNCHANGED <<cfgVars, dbVars, dbFaults, pc, loopVars, fetcherVars,
                   cdep, attempt, queryResult>>

\* The documentation site answers attempt number `attempt`.
AttemptRespond ==
    /\ cpc = "attempt"
    /\ \E r \in inflight, outcome \in RawOutcomes :
        /\ r.by = "crawler"
        /\ inflight' = inflight \ {r}
        /\ IF outcome = "200"
           THEN /\ CrawlReturn(cdep, BasicRecord(docUrl, clock))
                /\ log' = Append(log, Event("crawl-response"))
                /\ UNCHANGED httpFaults
           ELSE /\ MayFail
                /\ httpFaults' = httpFaults + 1
                /\ IF ShouldRetry(outcome, attempt)
                   THEN /\ cpc' = "delay"
                        /\ log' = Append(log, Event("crawl-failed") @@ [status |-> outcome, attempt |-> attempt])
                        /\ UNCHANGED <<crawlerCache, cret>>
                   ELSE /\ CrawlReturn(cdep, FetchErrorRecord(docUrl, outcome, clock))
                        /\ log' = Append(log, Event("crawl-failed") @@ [status |-> outcome, attempt |-> attempt])
    /\ UNCHANGED <<cfgVars, dbVars, dbFaults, pc, loopVars, fetcherVars,
                   cdep, cmode, docUrl, attempt, queryResult>>

\* The value of a function that ends without a return statement.
Undefined == [undefined |-> TRUE]

\* await this.delay(attempt * 2000); continue: attempt++ and the test
\* attempt <= 3 of the loop, then the next attempt, or the end of the
\* function without a return.
RetryAfterDelay ==
    /\ cpc = "delay"
    /\ attempt' = attempt + 1
    /\ IF attempt + 1 <= MaxAttempts
       THEN /\ inflight' = inflight \cup {Request("crawler", "page")}
            /\ log' = Append(Append(log, Event("retry-delay") @@ [ms |-> attempt * 2000]),
                             Event("crawl-request") @@ [attempt |-> attempt + 1])
            /\ cpc' = "attempt"
            /\ UNCHANGED <<crawlerCache, cret>>
       ELSE /\ CrawlReturn(cdep, Undefined)
            /\ log' = Append(log, Event("retry-delay") @@ [ms |-> attempt * 2000])
            /\ UNCHANGED inflight
    /\ UNCHANGED <<cfgVars, dbVars, dbFaults, httpFaults, pc, loopVars,
                   fetcherVars, cdep, cmode, docUrl, queryResult>>

\* documentation = await this.crawler.crawlDocumentation(dep), the value.
CrawlAwait ==
    /\ pc = "crawl"
    /\ cpc = "ret"
    /\ documentation' = cret
    /\ cpc' = "idle"
    /\ pc' = "store"
    /\ UNCHANGED <<cfgVars, dbVars, dbFaults, httpFaults, deps, idx, results,
                   description, fetcherVars, crawlerCache, cdep, cmode, docUrl,
                   attempt, cret, inflight, queryResult, log>>

(* ------------------- DocumentationMapper, continued ------------------- *)

\* await this.database.storePackage(packageData); results.push(packageData)
DbStore ==
    /\ pc = "store"
    /\ \/ /\ MayFail
          /\ dbFaults' = dbFaults + 1
          /\ ProcessCatch("database error")
          /\ UNCHANGED dbVars
       \/ /\ LET p == PackageData(deps[idx], description, documentation, clock)
             IN /\ store' = StorePackage(dbType, store, lastID + 1, p)
                /\ results' = Append(results, p)
          /\ lastID' = lastID + 1
          /\ log' = Append(log, Event("upsert"))
          /\ pc' = "pause"
          /\ UNCHANGED <<dbFaults, idx>>
    /\ UNCHANGED <<cfgVars, httpFaults, deps, description, documentation,
                   fetcherVars, crawlerVars, inflight, queryResult>>

\* await this.delay(200 + Math.random() * 300), then the next record.
Pause ==
    /\ pc = "pause"
    /\ log' = Append(log, Event("pause"))
    /\ idx' = idx + 1
    /\ pc' = "loop"
    /\ UNCHANGED <<cfgVars, dbVars, dbFaults, httpFaults, deps, results,
                   description, documentation, fetcherVars, crawlerVars, inflight,
                   queryResult>>

\* The filters of the query command: package, version and ecosystem from
\* the options, each absent or a value; the object has no field name.
Filters ==
    [package : {"lodash", "express", NoFilter}, version : {<<"4">>, <<"10">>, NoVersion},
     ecosystem : {"npm", "pypi", NoFilter}, name : {NoFilter}]

\* The query command: queryDocumentation(filters) in a process of its own,
\* run on the table before the scan command is.
Query ==
    /\ pc = "idle"
    /\ \E f \in Filters : \E list \in QueryPackages(dbType, store, f) :
          queryResult' = [filters |-> f, rows |-> list]
    /\ UNCHANGED <<cfgVars, dbVars, dbFaults, httpFaults, pc, loopVars,
                   fetcherVars, crawlerVars, inflight, log>>

\* The table an earlier run left behind: empty, or holding one package.
SeedStores(type) ==
    LET d == Dep("npm", "lodash", <<"4">>)
        p == PackageData(d, RegistryDescription(d), BasicRecord(NpmPackagePage(d), 0), 0)
    IN {{}, StorePackage(type, {}, 1, p)}

\* A process after initialize(): new components with empty caches, nothing
\* in flight, no record in hand.
InitProcess ==
    /\ skipDocs = FALSE
    /\ clock = 1
    /\ dbFaults = 0
    /\ httpFaults = 0
    /\ deps = <<>>
    /\ idx = 1
    /\ results = <<>>
    /\ description = <<>>
    /\ documentation = Null
    /\ fetcherCache = EmptyCache
    /\ fpc = "idle"
    /\ fdep = NoDep
    /\ fret = <<>>
    /\ crawlerCache = EmptyCache
    /\ cpc = "idle"
    /\ cdep = NoDep
    /\ cmode = "basic"
    /\ docUrl = NoUrl
    /\ attempt = 0
    /\ cret = Null
    /\ inflight = {}
    /\ queryResult = NoQuery
    /\ getResult = Null
    /\ input = Null
    /\ manifestFiles = <<>>
    /\ log = <<>>

\* The CLI: the database of either backend opened on the table earlier runs
\* left, the scraping credential configured or not.
Init ==
    /\ InitProcess
    /\ dbType \in {"sqlite", "mongodb"}
    /\ firecrawlApiKey \in BOOLEAN
    /\ store \in SeedStores(dbType)
    /\ lastID = Cardinality(store)
    /\ faultLimit = MaxFaults
    /\ pc = "idle"

Next ==
    \/ ScanStart
    \/ LoopHead
    \/ DbGet
    \/ FetchStart
    \/ FetchRespond
    \/ FetchAwait
    \/ CrawlStart
    \/ UrlRespond
    \/ UrlKnown
    \/ FirecrawlRespond
    \/ AttemptRespond
    \/ RetryAfterDelay
    \/ CrawlAwait
    \/ DbStore
    \/ Pause
    \/ Query

Spec == Init /\ [][Next]_vars

(* ---------------------- the Database, called directly ----------------- *)

\* The entries handed to storePackage: three keys, the first with the
\* description of the registry or the placeholder of a failed lookup, the
\* second of another ecosystem and name, the third another version of the
\* first package.
StoreInputs ==
    LET a == Dep("npm", "lodash", <<"4">>)
        b == Dep("pypi", "express", <<"4">>)
        c == Dep("npm", "lodash", <<"10">>)
    IN {PackageData(a, RegistryDescription(a), BasicRecord(GithubRepository(a), 1), 1),
        PackageData(a, FailedDescription(a),
                    FetchErrorRecord(NpmPackagePage(a), "403", 1), 1),
        PackageData(b, RegistryDescription(b), FirecrawlRecord(StaticDocUrl(b), 1), 1),
        PackageData(c, RegistryDescription(c), NoUrlNote, 1)}

\* The keys looked up: the stored ones and one no call stores, which
\* differs from a stored key in the ecosystem alone.
GetInputs == {Key(p) : p \in StoreInputs} \cup {<<"pypi", "lodash", <<"4">>>>}

\* The filters handed to queryPackages: those of the query command, and
\* objects that carry the package name in a field name.
DirectFilters ==
    Filters \cup
    {[package |-> NoFilter, version |-> v, ecosystem |-> NoFilter, name |-> "lodash"] :
        v \in {NoVersion, <<"10">>}}

\* await database.storePackage(packageData). The id is the next row id of
\* SQLite; MongoDB uses it only for a document it inserts. What was read
\* before the write is dropped.
DirectStore ==
    /\ pc = "api"
    /\ Len(log) < MaxStoreCalls
    /\ \E p \in StoreInputs :
        /\ store' = StorePackage(dbType, store, lastID + 1, p)
        /\ log' = Append(log, [ev |-> "store", p |-> p])
    /\ lastID' = lastID + 1
    /\ queryResult' = NoQuery
    /\ getResult' = Null
    /\ UNCHANGED <<dbType, firecrawlApiKey, skipDocs, clock, faultLimit, input, manifestFiles,
                   dbFaults,
                   httpFaults, pc, loopVars, fetcherVars, crawlerVars, inflight>>

\* await database.getPackageDocumentation(name, version, ecosystem)
DirectGet ==
    /\ pc = "api"
    /\ \E k \in GetInputs :
       \E v \in GetPackageDocumentation(dbType, store, k[2], k[3], k[1]) :
          getResult' = [key |-> k, value |-> v]
    /\ UNCHANGED <<queryResult, dbType, firecrawlApiKey, skipDocs, clock, faultLimit, input,
                   manifestFiles,
                   dbVars, dbFaults,
                   httpFaults, pc, loopVars, fetcherVars, crawlerVars, inflight, log>>

\* await database.queryPackages(filters)
DirectQuery ==
    /\ pc = "api"
    /\ \E f \in DirectFilters : \E list \in QueryPackages(dbType, store, f) :
          queryResult' = [filters |-> f, rows |-> list]
    /\ getResult' = Null
    /\ UNCHANGED <<dbType, firecrawlApiKey, skipDocs, clock, faultLimit, input, manifestFiles,
                   dbVars, dbFaults,
                   httpFaults, pc, loopVars, fetcherVars, crawlerVars, inflight, log>>

InitStore ==
    /\ InitProcess
    /\ dbType \in {"sqlite", "mongodb"}
    /\ firecrawlApiKey = FALSE
    /\ store \in SeedStores(dbType)
    /\ lastID = Cardinality(store)
    /\ faultLimit = 0
    /\ pc = "api"

NextStore ==
    \/ DirectStore
    \/ DirectGet
    \/ DirectQuery

\* Any sequence of storePackage, getPackageDocumentation and queryPackages
\* calls on either backend.
SpecStore == InitStore /\ [][NextStore]_vars

(* ----------------- the DocumentationCrawler, called directly ---------- *)

\* The records crawlDocumentation is called with: an npm package whose
\* repository is on github.com and one whose repository is on another host,
\* a package with a fixed URL rule, and a package of an unsupported ecosystem.
CrawlUniverse ==
    { Dep("npm", "lodash", <<"4">>),
      Dep("npm", "express", <<"4">>),
      Dep("pypi", "lodash", <<"4">>),
      Dep("swift", "alamofire", <<"5">>) }

\* new Date().toISOString() read after an earlier call returned: a later time.
Tick(t) == t + 1

\* await crawler.crawlDocumentation(dependency), the call; idx numbers the calls.
DirectCrawlStart ==
    /\ pc = "api"
    /\ Len(results) < MaxCrawlCalls
    /\ \E d \in CrawlUniverse : CrawlCall(d)
    /\ UNCHANGED <<cfgVars, dbVars, dbFaults, httpFaults, pc, loopVars, fetcherVars,
                   queryResult>>

\* await crawler.crawlDocumentation(dependency), the value.
DirectCrawlAwait ==
    /\ pc = "api"
    /\ cpc = "ret"
    /\ results' = Append(results, [call |-> idx, dep |-> cdep, doc |-> cret])
    /\ idx' = idx + 1
    /\ cpc' = "idle"
    /\ clock' = Tick(clock)
    /\ UNCHANGED <<dbType, firecrawlApiKey, skipDocs, faultLimit, getResult, input,
                   manifestFiles,
                   dbVars, dbFaults, httpFaults, pc, deps, description,
                   documentation, fetcherVars, crawlerCache, cdep, cmode, docUrl, attempt,
                   cret, inflight, queryResult, log>>

\* No limit on the failures of the environment.
NoFaultLimit == 0 - 1

InitCrawler ==
    /\ InitProcess
    /\ dbType = "sqlite"
    /\ firecrawlApiKey \in BOOLEAN
    /\ store = {}
    /\ lastID = 0
    /\ faultLimit = NoFaultLimit
    /\ pc = "api"

NextCrawler ==
    \/ DirectCrawlStart
    \/ UrlRespond
    \/ UrlKnown
    \/ FirecrawlRespond
    \/ AttemptRespond
    \/ RetryAfterDelay
    \/ DirectCrawlAwait

\* Any sequence of crawlDocumentation calls on one crawler, every HTTP
\* request free to fail.
SpecCrawler == InitCrawler /\ [][NextCrawler]_vars

(* --------------------------- DependencyScanner ------------------------ *)

\* The tokens of a version that start with a digit; every other token holds
\* no digit.
DigitTokens == {"4", "5", "10"}

\* version.replace(/^[^\d]*/, ''): the longest prefix without a digit goes.
RECURSIVE StripLeadingNonDigits(_)
StripLeadingNonDigits(v) ==
    IF v = <<>> THEN <<>>
    ELSE IF Head(v) \in DigitTokens THEN v
    ELSE StripLeadingNonDigits(Tail(v))

\* A key of dependencies / devDependencies with its JSON value.
ManifestEntry(n, type, text) == [name |-> n, value |-> [type |-> type, text |-> text]]

\* The entries a package.json declares: caret, tilde and comparison ranges,
\* an exact version, a workspace protocol, a distribution tag, and a value
\* that is a JSON number, not a string.
ManifestEntries ==
    { ManifestEntry("lodash", "string", <<"^", "4">>),
      ManifestEntry("express", "string", <<"~", "4">>),
      ManifestEntry("express", "string", <<">=", "4">>),
      ManifestEntry("lodash", "string", <<"4">>),
      ManifestEntry("ui-kit", "string", <<"workspace:", "*">>),
      ManifestEntry("express", "string", <<"latest">>),
      ManifestEntry("ui-kit", "number", <<"4">>) }

\* The objects a section of package.json can be: Object.entries order, no
\* key twice.
Sections ==
    {sec \in SeqsUpTo(ManifestEntries, MaxManifestEntries) :
        \A i \in 1..Len(sec), j \in 1..Len(sec) : sec[i].name = sec[j].name => i = j}

\* A file whose text JSON.parse rejects / a file readFileSync cannot read.
Garbled == [garbled |-> TRUE]

Unreadable == [unreadable |-> TRUE]

PackageJsonContents ==
    {[json |-> [dependencies |-> d, devDependencies |-> v]] : d \in Sections, v \in Sections}

\* requirements.txt: lines of the form name, operator, version; or a name
\* alone; or a comment.
RequirementsContents ==
    { [lines |-> << <<"lodash", "==", "4">> >>],
      [lines |-> << <<"#", "pinned">>, <<"express">> >>] }

\* go.mod, line by line, each line as its words: a module line, then the
\* required modules in single-line directives, in a block with one module
\* a line, in a block written on one line, or in both forms.
GoModContents ==
    LET gin == "github.com/gin-gonic/gin"
        text == "golang.org/x/text"
    IN { [lines |-> << <<"module", "example.com/app">>,
                       <<"require", gin, "v1">> >>],
         [lines |-> << <<"module", "example.com/app">>,
                       <<"require", "(">>,
                       <<gin, "v1">>,
                       <<text, "v0", "//", "indirect">>,
                       <<")">> >>],
         [lines |-> << <<"module", "example.com/app">>,
                       <<"require", "(", gin, "v1", ")">> >>],
         [lines |-> << <<"module", "example.com/app">>,
                       <<"require", text, "v0">>,
                       <<"require", "(">>,
                       <<gin, "v1">>,
                       <<")">>,
                       <<"replace", text, "=>", "../text">> >>] }

\* The repository directories: each manifest absent (Null) or present with
\* a content.
Directories ==
    [packageJson : PackageJsonContents \cup {Garbled, Unreadable, Null},
     requirementsTxt : RequirementsContents \cup {Unreadable, Null},
     yarnLock : {Unreadable, Null},
     goMod : GoModContents \cup {Null}]

\* The record parsePackageJson pushes for an entry.
NpmRecord(e, path, dev) ==
    [ecosystem |-> "npm", name |-> e.name,
     version |-> StripLeadingNonDigits(e.value.text),
     source |-> "registry", manifestPath |-> path, isDevDependency |-> dev]

\* parsePackageJson: the records, or the error thrown by readFileSync, by
\* JSON.parse or by version.replace on a value that is no string.
ParsePackageJson(path, content) ==
    IF content = Unreadable THEN [error |-> "ENOENT"]
    ELSE IF content = Garbled THEN [error |-> "Unexpected token"]
    ELSE LET d == content.json.dependencies
             v == content.json.devDependencies
         IN IF \E i \in 1..Len(d) : d[i].value.type # "string"
            THEN [error |-> "version.replace is not a function"]
            ELSE IF \E i \in 1..Len(v) : v[i].value.type # "string"
            THEN [error |-> "version.replace is not a function"]
            ELSE [value |-> [i \in 1..Len(d) |-> NpmRecord(d[i], path, FALSE)]
                              \o [i \in 1..Len(v) |-> NpmRecord(v[i], path, TRUE)]]

\* The operators of /^([a-zA-Z0-9\-_.]+)([><=~!]+)(.+)$/.
RequirementOperators == {"==", ">=", "<=", "~=", "!=", ">", "<"}

\* The record parseRequirementsTxt pushes for a line.
PypiRecord(line, path) ==
    IF Len(line) >= 3 /\ line[2] \in RequirementOperators
    THEN [ecosystem |-> "pypi", name |-> line[1], version |-> SubSeq(line, 3, Len(line)),
          source |-> "pypi", manifestPath |-> path, isDevDependency |-> FALSE]
    ELSE [ecosystem |-> "pypi", name |-> line[1], version |-> <<"*">>,
          source |-> "pypi", manifestPath |-> path, isDevDependency |-> FALSE]

\* parseRequirementsTxt: comment lines are dropped, every other line gives
\* a record.
ParseRequirementsTxt(path, content) ==
    IF content = Unreadable THEN [error |-> "ENOENT"]
    ELSE LET kept == SelectSeq(content.lines, LAMBDA l : l[1] # "#")
         IN [value |-> [i \in 1..Len(kept) |-> PypiRecord(kept[i], path)]]

\* The record parseGoMod pushes for a module and its version.
GoRecord(name, version, path) ==
    [ecosystem |-> "go", name |-> name, version |-> <<version>>,
     source |-> "goproxy", manifestPath |-> path, isDevDependency |-> FALSE]

\* The position of the first ")" after position 2 of the line, 0 if none.
ClosingParen(line) ==
    IF \E k \in 3..Len(line) : line[k] = ")"
    THEN CHOOSE k \in 3..Len(line) :
            line[k] = ")" /\ \A m \in 3..(k - 1) : line[m] # ")"
    ELSE 0

\* The body of the loop of parseGoMod for one line. A line is looked at
\* when it starts with require or holds =>. /require\s+\(([\s\S]*?)\)/
\* matches when the parentheses open and close on the line, and the words
\* between them are one entry; else /require\s+([^@\s]+)\s+([^@\s]+)/
\* takes the two words after require.
ParseGoModLine(line, path) ==
    IF ~(Head(line) = "require" \/ \E k \in 1..Len(line) : line[k] = "=>")
    THEN <<>>
    ELSE IF Head(line) = "require" /\ Len(line) >= 2 /\ line[2] = "("
            /\ ClosingParen(line) # 0
    THEN IF ClosingParen(line) >= 5
         THEN <<GoRecord(line[3], line[4], path)>>
         ELSE <<>>
    ELSE IF Head(line) = "require" /\ Len(line) >= 3
    THEN <<GoRecord(line[2], line[3], path)>>
    ELSE <<>>

\* The records of the lines of a go.mod, in order.
RECURSIVE ParseGoModLines(_, _)
ParseGoModLines(lines, path) ==
    IF lines = <<>> THEN <<>>
    ELSE ParseGoModLine(Head(lines), path) \o ParseGoModLines(Tail(lines), path)

\* parseGoMod
ParseGoMod(path, content) ==
    IF content = Unreadable THEN [error |-> "ENOENT"]
    ELSE [value |-> ParseGoModLines(content.lines, path)]

\* parseManifestFile: the parser of the file name; a file with no parser
\* gives no record and is not read.
ParseManifestFile(path, content) ==
    CASE path = "package.json" -> ParsePackageJson(path, content)
      [] path = "requirements.txt" -> ParseRequirementsTxt(path, content)
      [] path = "go.mod" -> ParseGoMod(path, content)
      [] OTHER -> [value |-> <<>>]

\* The patterns of findManifestFiles that name the files above, in order.
ManifestPatterns == <<"package.json", "yarn.lock", "requirements.txt", "go.mod">>

\* The content of a file of the directory, Null when it is absent.
FileContent(dir, path) ==
    CASE path = "package.json" -> dir.packageJson
      [] path = "yarn.lock" -> dir.yarnLock
      [] path = "go.mod" -> dir.goMod
      [] OTHER -> dir.requirementsTxt

\* findManifestFiles: the files present, in pattern order.
FindManifestFiles(dir) ==
    SelectSeq(ManifestPatterns, LAMBDA path : FileContent(dir, path) # Null)

\* const manifestFiles = await this.findManifestFiles(repoPath)
ScanFindManifests ==
    /\ pc = "scan"
    /\ manifestFiles' = FindManifestFiles(input.files)
    /\ pc' = "scan-loop"
    /\ UNCHANGED <<dbType, firecrawlApiKey, skipDocs, clock, faultLimit, getResult, input,
                   dbVars, dbFaults, httpFaults, loopVars, fetcherVars, crawlerVars,
                   inflight, queryResult, log>>

\* The error of a parser leaves scan.
ScanParseRethrow ==
    /\ pc = "scan-loop"
    /\ idx <= Len(manifestFiles)
    /\ LET file == manifestFiles[idx]
           parsed == ParseManifestFile(file, FileContent(input.files, file))
       IN IF "error" \in DOMAIN parsed
          THEN /\ pc' = "scan-failed"
               /\ UNCHANGED <<deps, log>>
          ELSE /\ deps' = deps \o parsed.value
               /\ UNCHANGED <<log, pc>>
    /\ idx' = idx + 1
    /\ UNCHANGED <<cfgVars, dbVars, dbFaults, httpFaults, results, description,
                   documentation, fetcherVars, crawlerVars, inflight, queryResult>>

\* The body of for (const file of manifestFiles): the records of the file
\* are appended, or the error of its parser is caught and logged.
ScanParse ==
    /\ pc = "scan-loop"
    /\ idx <= Len(manifestFiles)
    /\ LET file == manifestFiles[idx]
           parsed == ParseManifestFile(file, FileContent(input.files, file))
       IN IF "error" \in DOMAIN parsed
          THEN /\ log' = Append(log, [rec |-> idx, ev |-> "warn", file |-> file])
               /\ UNCHANGED <<deps, pc>>
          ELSE /\ deps' = deps \o parsed.value
               /\ UNCHANGED <<log, pc>>
    /\ idx' = idx + 1
    /\ UNCHANGED <<cfgVars, dbVars, dbFaults, httpFaults, results, description,
                   documentation, fetcherVars, crawlerVars, inflight, queryResult>>

\* return dependencies
ScanReturn ==
    /\ pc = "scan-loop"
    /\ idx > Len(manifestFiles)
    /\ pc' = "scanned"
    /\ UNCHANGED <<cfgVars, dbVars, dbFaults, httpFaults, loopVars, fetcherVars,
                   crawlerVars, inflight, queryResult, log>>

\* scanner.scan(repoPath) is called on a directory.
InitScanner ==
    /\ dbType = "sqlite"
    /\ firecrawlApiKey = FALSE
    /\ skipDocs = FALSE
    /\ store = {}
    /\ lastID = 0
    /\ clock = 1
    /\ faultLimit = 0
    /\ dbFaults = 0
    /\ httpFaults = 0
    /\ pc = "scan"
    /\ deps = <<>>
    /\ idx = 1
    /\ results = <<>>
    /\ description = <<>>
    /\ documentation = Null
    /\ fetcherCache = EmptyCache
    /\ fpc = "idle"
    /\ fdep = NoDep
    /\ fret = <<>>
    /\ crawlerCache = EmptyCache
    /\ cpc = "idle"
    /\ cdep = NoDep
    /\ cmode = "basic"
    /\ docUrl = NoUrl
    /\ attempt = 0
    /\ cret = Null
    /\ inflight = {}
    /\ queryResult = NoQuery
    /\ getResult = Null
    /\ \E dir \in Directories : input = [kind |-> "dir", files |-> dir]
    /\ manifestFiles = <<>>
    /\ log = <<>>

NextScanner ==
    \/ ScanFindManifests
    \/ ScanParse
    \/ ScanReturn

\* One call of DependencyScanner.scan on any of the directories.
SpecScanner == InitScanner /\ [][NextScanner]_vars

(* ------------------ fetchBasicDocumentation, to its end --------------- *)

\* A crawler without scraping credential: crawlDocumentation goes straight
\* to fetchBasicDocumentation.
InitRawFetch ==
    /\ InitProcess
    /\ dbType = "sqlite"
    /\ firecrawlApiKey = FALSE
    /\ store = {}
    /\ lastID = 0
    /\ faultLimit = NoFaultLimit
    /\ pc = "api"

NextRawFetch ==
    \/ DirectCrawlStart
    \/ UrlRespond
    \/ UrlKnown
    \/ AttemptRespond
    \/ RetryAfterDelay
    \/ DirectCrawlAwait

\* Every request is made with a timeout and every delay is a timer, so a
\* pending request is answered and a pending delay ends.
SpecRawFetch ==
    /\ InitRawFetch
    /\ [][NextRawFetch]_vars
    /\ WF_vars(UrlRespond)
    /\ WF_vars(UrlKnown)
    /\ WF_vars(AttemptRespond)
    /\ WF_vars(RetryAfterDelay)

(* -------------------- the PackageFetcher, called directly ------------- *)

\* The records fetchDescription is called with: an npm package, a PyPI
\* package, a Go module on github.com and a package of an unsupported
\* ecosystem.
FetchUniverse ==
    { Dep("npm", "lodash", <<"4">>),
      Dep("pypi", "lodash", <<"4">>),
      Dep("go", "github.com/gin-gonic/gin", <<"4">>),
      Dep("swift", "alamofire", <<"5">>) }

\* await fetcher.fetchDescription(dependency), the call; idx numbers the calls.
DirectFetchStart ==
    /\ pc = "api"
    /\ Len(results) < MaxFetchCalls
    /\ \E d \in FetchUniverse : FetchCall(d)
    /\ UNCHANGED <<cfgVars, dbVars, dbFaults, httpFaults, pc, loopVars, crawlerVars,
                   queryResult>>

\* await fetcher.fetchDescription(dependency), the value.
DirectFetchAwait ==
    /\ pc = "api"
    /\ fpc = "ret"
    /\ results' = Append(results, [call |-> idx, dep |-> fdep, desc |-> fret])
    /\ idx' = idx + 1
    /\ fpc' = "idle"
    /\ UNCHANGED <<cfgVars, dbVars, dbFaults, httpFaults, pc, deps, description,
                   documentation, fetcherCache, fdep, fret, crawlerVars, inflight,
                   queryResult, log>>

InitFetcher ==
    /\ InitProcess
    /\ dbType = "sqlite"
    /\ firecrawlApiKey = FALSE
    /\ store = {}
    /\ lastID = 0
    /\ faultLimit = NoFaultLimit
    /\ pc = "api"

NextFetcher ==
    \/ DirectFetchStart
    \/ FetchRespond
    \/ DirectFetchAwait

\* Any sequence of fetchDescription calls on one fetcher, every HTTP request
\* free to fail.
SpecFetcher == InitFetcher /\ [][NextFetcher]_vars

(* ------------------ the scan command on a directory ------------------- *)

\* The repositories the scan command is run on: a package.json that declares
\* a workspace package alone, and one that declares it next to a registry
\* package, with a requirements.txt beside it.
Repositories ==
    { [packageJson |->
          [json |-> [dependencies |->
                        <<ManifestEntry("ui-kit", "string", <<"workspace:", "*">>)>>,
                     devDependencies |-> <<>>]],
       requirementsTxt |-> Null, yarnLock |-> Null, goMod |-> Null],
      [packageJson |->
          [json |-> [dependencies |-> <<ManifestEntry("lodash", "string", <<"^", "4">>)>>,
                     devDependencies |->
                        <<ManifestEntry("ui-kit", "string", <<"workspace:", "*">>)>>]],
       requirementsTxt |-> [lines |-> << <<"lodash", "==", "4">> >>],
       yarnLock |-> Null, goMod |-> Null] }

\* const results = await mapper.processDependencies(dependencies), called
\* with the list scanRepository returned.
ProcessScanned ==
    /\ pc = "scanned"
    /\ pc' = "loop"
    /\ idx' = 1
    /\ UNCHANGED <<cfgVars, dbVars, dbFaults, httpFaults, deps, results, description,
                   documentation, fetcherVars, crawlerVars, inflight, queryResult, log>>

\* A process after initialize() whose scan command is given a directory
\* and an empty table.
InitRepository ==
    /\ dbType \in {"sqlite", "mongodb"}
    /\ firecrawlApiKey \in BOOLEAN
    /\ skipDocs = FALSE
    /\ store = {}
    /\ lastID = 0
    /\ clock = 1
    /\ faultLimit = MaxFaults
    /\ dbFaults = 0
    /\ httpFaults = 0
    /\ pc = "scan"
    /\ deps = <<>>
    /\ idx = 1
    /\ results = <<>>
    /\ description = <<>>
    /\ documentation = Null
    /\ fetcherCache = EmptyCache
    /\ fpc = "idle"
    /\ fdep = NoDep
    /\ fret = <<>>
    /\ crawlerCache = EmptyCache
    /\ cpc = "idle"
    /\ cdep = NoDep
    /\ cmode = "basic"
    /\ docUrl = NoUrl
    /\ attempt = 0
    /\ cret = Null
    /\ inflight = {}
    /\ queryResult = NoQuery
    /\ getResult = Null
    /\ \E dir \in Repositories : input = [kind |-> "dir", files |-> dir]
    /\ manifestFiles = <<>>
    /\ log = <<>>

NextRepository ==
    \/ ScanFindManifests
    \/ ScanParse
    \/ ScanReturn
    \/ ProcessScanned
    \/ LoopHead
    \/ DbGet
    \/ FetchStart
    \/ FetchRespond
    \/ FetchAwait
    \/ CrawlStart
    \/ UrlRespond
    \/ UrlKnown
    \/ FirecrawlRespond
    \/ AttemptRespond
    \/ RetryAfterDelay
    \/ CrawlAwait
    \/ DbStore
    \/ Pause

\* The scan command on a directory: DependencyScanner.scan, then
\* processDependencies on the records it returned.
SpecRepository == InitRepository /\ [][NextRepository]_vars

(* ------------------------------- claims ------------------------------- *)

\* The version holds the substring 'workspace:'.
HasWorkspaceToken(dep) == \E k \in 1..Len(dep.version) : dep.version[k] = "workspace:"

\* The log holds an event of one of the kinds for record (or call) i.
HasEvent(i, kinds) == \E k \in 1..Len(log) : log[k].rec = i /\ log[k].ev \in kinds

WorkspaceDescription(dep) == <<"Internal workspace package: ", dep.name>>

\* C1, as stated: after the run, no workspace record was sent to the Fetcher
\* or the Crawler and the Store holds an entry for its key with the
\* placeholder description.
C1_WorkspaceStored ==
    pc = "done" =>
        \A i \in 1..Len(deps) :
            HasWorkspaceToken(deps[i]) =>
                /\ ~HasEvent(i, {"fetch-call", "crawl-call"})
                /\ \E r \in store :
                      Key(r) = Key(deps[i]) /\ r.description = WorkspaceDescription(deps[i])

\* C1, amended: a workspace record is never sent to the Fetcher or the
\* Crawler and no Store operation is issued for it, so the run adds no entry
\* for it to the Store; its entry with the placeholder description is in the
\* results list processDependencies returns.
C1_WorkspaceSkipped ==
    \A i \in 1..Len(deps) :
        (HasWorkspaceToken(deps[i]) /\ i < idx) =>
            /\ ~HasEvent(i, {"fetch-call", "crawl-call", "get", "upsert", "failed"})
            /\ Key(results[i]) = Key(deps[i])
            /\ results[i].description = WorkspaceDescription(deps[i])
            /\ Key(deps[i]) \notin StoreKeys

C1_Witness ==
    /\ pc = "done"
    /\ \E i \in 1..Len(deps) :
          /\ deps[i].version # WorkspaceStar
          /\ HasWorkspaceToken(deps[i])
          /\ results[i].description = WorkspaceDescription(deps[i])
    /\ \E i \in 1..Len(deps) : deps[i].version = WorkspaceStar

\* C4: when the registry request of record i failed, every later record j
\* that is no workspace record and met no Store error was looked up and is
\* in the Store at the end of the run, and if it was not there before it
\* was fetched, crawled and upserted.
C4_FailureDoesNotBlock ==
    pc = "done" =>
        \A i \in 1..Len(deps), j \in 1..Len(deps) :
            (/\ i < j
             /\ HasEvent(i, {"fetch-failed"})
             /\ ~HasWorkspaceToken(deps[j])
             /\ ~HasEvent(j, {"failed"})) =>
                /\ Key(deps[j]) \in StoreKeys
                /\ HasEvent(j, {"get"})
                /\ (\E k \in 1..Len(log) :
                        log[k].rec = j /\ log[k].ev = "get" /\ ~log[k].found) =>
                      /\ HasEvent(j, {"fetch-call"})
                      /\ HasEvent(j, {"crawl-call"})
                      /\ HasEvent(j, {"upsert"})

C4_Witness ==
    /\ pc = "done"
    /\ Len(deps) = 2
    /\ HasEvent(1, {"fetch-failed"})
    /\ HasEvent(2, {"upsert"})
    /\ Key(deps[1]) # Key(deps[2])
    /\ Key(deps[2]) \in StoreKeys

\* C5: a lookup that does not raise skips the record exactly when its key is
\* in the Store: then the Store is left as it is, nothing is sent and the
\* stored entry is the result; otherwise the record goes on to the Fetcher.
\* A record that was found has no other event than its lookup.
C5_SkipExisting ==
    /\ [][(pc = "get" /\ dbFaults' = dbFaults) =>
            IF Key(deps[idx]) \in StoreKeys
            THEN /\ store' = store
                 /\ lastID' = lastID
                 /\ inflight' = {}
                 /\ fpc' = "idle"
                 /\ cpc' = "idle"
                 /\ idx' = idx + 1
                 /\ pc' = "loop"
                 /\ Len(results') = Len(results) + 1
                 /\ Key(results'[Len(results')]) = Key(deps[idx])
            ELSE /\ pc' = "fetch"
                 /\ idx' = idx]_vars
    /\ [](\A k \in 1..Len(log) :
            (log[k].ev = "get" /\ log[k].found) =>
                \A m \in 1..Len(log) : log[m].rec = log[k].rec => m = k)

C5_Witness ==
    /\ pc = "done"
    /\ Len(deps) = 2
    /\ deps[1] = Dep("npm", "lodash", <<"4">>)
    /\ deps[2] = Dep("pypi", "lodash", <<"4">>)
    /\ \E k \in 1..Len(log) : log[k].rec = 1 /\ log[k].ev = "get" /\ log[k].found
    /\ HasEvent(2, {"upsert"})
    /\ ~HasEvent(1, {"fetch-call", "crawl-call", "upsert"})

\* The place of an event in the work on one record.
Phase(ev) ==
    CASE ev \in {"workspace", "get"} -> 1
      [] ev \in {"fetch-call", "fetch-request", "fetch-response", "fetch-failed"} -> 2
      [] ev \in {"crawl-call", "crawl-request", "crawl-response", "crawl-failed",
                 "retry-delay"} -> 3
      [] ev \in {"upsert", "failed"} -> 4
      [] OTHER -> 5

\* The event ends the work on its record.
Terminal(e) ==
    \/ e.ev \in {"workspace", "failed", "pause"}
    \/ e.ev = "get" /\ e.found

\* C6: at most one HTTP request is in flight and it belongs to the record of
\* the loop; the events of the run are in input order of the records, those
\* of one record in the order lookup, Fetcher, Crawler, upsert, pause, and
\* the first event of a record follows the last of the record before.
C6_Sequential ==
    /\ Cardinality(inflight) <= 1
    /\ \A r \in inflight : r.rec = idx
    /\ Len(log) > 0 => log[1].rec = 1
    /\ \A k \in 1..(Len(log) - 1) :
          \/ /\ log[k + 1].rec = log[k].rec
             /\ Phase(log[k].ev) <= Phase(log[k + 1].ev)
             /\ ~Terminal(log[k])
          \/ /\ log[k + 1].rec = log[k].rec + 1
             /\ Terminal(log[k])
    /\ \A k \in 1..Len(log) : log[k].rec <= idx /\ log[k].rec <= Len(deps)

C6_Witness ==
    /\ pc = "done"
    /\ Len(deps) = 2
    /\ \A i \in 1..2 :
          /\ HasEvent(i, {"fetch-request"})
          /\ HasEvent(i, {"crawl-request"})
          /\ HasEvent(i, {"upsert"})

\* C10: no step removes a key from the Store.
C10_KeysOnlyGrow == [][StoreKeys \subseteq StoreKeys']_vars

C10_Witness ==
    /\ pc = "done"
    /\ Cardinality(StoreKeys) = 3
    /\ \E r1 \in store, r2 \in store : r1.name = r2.name /\ r1.version # r2.version

(* Claims about the Store, checked under SpecStore, where log holds the
   storePackage calls made so far in call order. *)

\* The storePackage calls made for a key, as positions of log.
StoreCalls(k) == {i \in 1..Len(log) : Key(log[i].p) = k}

\* The argument of the last storePackage call made for the key.
LastStored(k) ==
    LET last == CHOOSE i \in StoreCalls(k) : \A j \in StoreCalls(k) : j <= i
    IN log[last].p

\* storePackage was called twice for the key with different descriptions.
StoredTwiceDifferently(k) ==
    \E i \in StoreCalls(k), j \in StoreCalls(k) :
        i < j /\ log[i].p.description # log[j].p.description

\* The filters do not exclude the key.
FiltersAdmit(f, k) ==
    /\ f.ecosystem \in {NoFilter, k[1]}
    /\ f.package \in {NoFilter, k[2]}
    /\ f.version \in {NoVersion, k[3]}

\* C2: once storePackage was called for a key, getPackageDocumentation of the
\* key returns an entry whose description is that of the last call, and
\* queryPackages returns one entry for the key, with that description, when
\* its filters admit the key, and none otherwise.
C2_UpsertIdempotent ==
    \A k \in {Key(log[i].p) : i \in 1..Len(log)} :
        /\ (getResult # Null /\ getResult.key = k) =>
              /\ getResult.value # Null
              /\ Key(getResult.value) = k
              /\ getResult.value.description = LastStored(k).description
        /\ queryResult # NoQuery =>
              LET hits == {i \in 1..Len(queryResult.rows) : Key(queryResult.rows[i]) = k}
              IN /\ Cardinality(hits) = IF FiltersAdmit(queryResult.filters, k) THEN 1 ELSE 0
                 /\ \A i \in hits :
                       queryResult.rows[i].description = LastStored(k).description

C2_Witness ==
    \E k \in {Key(log[i].p) : i \in 1..Len(log)} :
        /\ StoredTwiceDifferently(k)
        /\ getResult # Null
        /\ getResult.key = k
        /\ getResult.value.description = log[Len(log)].p.description
        /\ queryResult # NoQuery
        /\ queryResult.filters.package = NoFilter
        /\ queryResult.filters.version = NoVersion
        /\ queryResult.filters.ecosystem = NoFilter
        /\ \E i \in 1..Len(queryResult.rows) : Key(queryResult.rows[i]) = k

\* What a caller reads of an entry, whichever backend holds it.
Entry(r) == <<Key(r), r.description, r.source>>

\* C3: queryPackages with no filter returns every stored entry once, and with
\* an ecosystem filter alone exactly the stored entries of that ecosystem.
C3_QueryEcosystem ==
    (/\ queryResult # NoQuery
     /\ queryResult.filters.package = NoFilter
     /\ queryResult.filters.version = NoVersion) =>
        LET e == queryResult.filters.ecosystem
            expected == IF e = NoFilter THEN store
                        ELSE {r \in store : r.ecosystem = e}
            rows == queryResult.rows
        IN /\ {Entry(rows[i]) : i \in 1..Len(rows)} = {Entry(r) : r \in expected}
           /\ Len(rows) = Cardinality(expected)

C3_Witness ==
    /\ queryResult # NoQuery
    /\ queryResult.filters = [package |-> NoFilter, version |-> NoVersion,
                              ecosystem |-> "pypi", name |-> NoFilter]
    /\ Len(queryResult.rows) = 1
    /\ queryResult.rows[1].ecosystem = "pypi"
    /\ Cardinality(store) = 2
    /\ \E r \in store : r.ecosystem = "npm"
    /\ \E r \in store : r.ecosystem = "pypi"

\* C9: the Store holds at most one entry for a key.
C9_PrimaryKey ==
    \A r1 \in store, r2 \in store : Key(r1) = Key(r2) => r1 = r2

C9_Witness ==
    /\ \E k \in {Key(log[i].p) : i \in 1..Len(log)} :
          /\ StoredTwiceDifferently(k)
          /\ \E r \in store : Key(r) = k /\ r.description = LastStored(k).description
    /\ Cardinality(store) >= 2

(* Claims about the Crawler, checked under SpecCrawler, where idx numbers
   the crawlDocumentation calls and results holds what each returned. *)

\* The GET requests of fetchBasicDocumentation in call c, as positions of log.
PageRequests(c) ==
    {k \in 1..Len(log) :
        log[k].rec = c /\ log[k].ev = "crawl-request" /\ "attempt" \in DOMAIN log[k]}

\* The failed GET requests of fetchBasicDocumentation in call c.
PageFailures(c) ==
    {k \in 1..Len(log) :
        log[k].rec = c /\ log[k].ev = "crawl-failed" /\ "status" \in DOMAIN log[k]}

\* The record is one with an error note.
ErrorNoted(doc) == "error" \in DOMAIN doc

EarlierCalls(c, dep) ==
    {i \in 1..Len(results) :
        results[i].call < c /\ CacheKey(results[i].dep) = CacheKey(dep)}

\* C8, as stated: the crawlDocumentation calls made for one triple send one
\* HTTP request in total.
C8_OneRequestInTotal ==
    \A d \in CrawlUniverse :
        Cardinality({k \in 1..Len(log) :
            /\ log[k].ev = "crawl-request"
            /\ \E i \in 1..Len(results) :
                  results[i].call = log[k].rec /\ CacheKey(results[i].dep) = CacheKey(d)})
          <= 1

\* C8, amended: once crawlDocumentation returned a record for a triple, a
\* later call for the triple sends no HTTP request and returns that record.
C8_CrawlerCache ==
    /\ \A j \in 1..Len(results) :
          \A i \in EarlierCalls(results[j].call, results[j].dep) :
              /\ results[j].doc = results[i].doc
              /\ ~HasEvent(results[j].call, {"crawl-request"})
    /\ cpc # "idle" =>
          \A i \in EarlierCalls(idx, cdep) :
              /\ ~HasEvent(idx, {"crawl-request"})
              /\ cpc = "ret"
              /\ cret = results[i].doc

C8_Witness ==
    /\ Len(results) = 2
    /\ results[1].dep = results[2].dep
    /\ results[1].dep.ecosystem = "npm"
    /\ results[2].doc = results[1].doc
    /\ "crawled_at" \in DOMAIN results[1].doc
    /\ results[1].doc.crawled_at # clock
    /\ Cardinality({k \in 1..Len(log) : log[k].ev = "crawl-request"}) >= 2
    /\ HasEvent(2, {"crawl-call"})

\* The scan input is a JSON file whose top level lacks a dependencies array.
MalformedInput ==
    input # Null /\ input.kind = "json" /\ LacksDependenciesArray(input.data)

\* C11: a scan of a JSON file without a dependencies array aborts at the
\* load: the step that reads the file leaves the Store, the requests in
\* flight and the events as they were, the run is then aborted with no
\* record processed, and an aborted run takes no further step.
C11_MalformedInputAborts ==
    /\ [][(input = Null /\ input' # Null /\ LacksDependenciesArray(input'.data)) =>
            /\ pc' = "aborted"
            /\ store' = store
            /\ lastID' = lastID
            /\ inflight' = {}
            /\ log' = log]_vars
    /\ [](MalformedInput =>
            /\ pc = "aborted"
            /\ log = <<>>
            /\ inflight = {}
            /\ results = <<>>
            /\ fpc = "idle"
            /\ cpc = "idle")
    /\ [][MalformedInput => store' = store]_vars

C11_Witness ==
    /\ MalformedInput
    /\ "dependencies" \notin DOMAIN input.data
    /\ pc = "aborted"
    /\ store # {}

\* The ecosystem values a branch of fetchDescription or getDocumentationUrl names.
SupportedEcosystems ==
    {"npm", "python", "pypi", "rust", "java", "ruby", "go", "dotnet", "php"}

\* The get of record i missed: the record went on to the Fetcher.
GetMissed(i) ==
    \E k \in 1..Len(log) : log[k].rec = i /\ log[k].ev = "get" /\ ~log[k].found

\* C12: for a record of an unsupported ecosystem no HTTP request is sent and
\* only a Store error makes it fail; the Fetcher returns the placeholder
\* and the Crawler the note record; once it is upserted, its result and
\* its Store entry carry the description 'Package from <ecosystem> ecosystem'
\* and the note record, and the loop has gone on to the next record.
C12_UnsupportedEcosystem ==
    \A i \in 1..Len(deps) :
        deps[i].ecosystem \notin SupportedEcosystems =>
            /\ ~HasEvent(i, {"fetch-request", "crawl-request", "fetch-failed", "crawl-failed"})
            /\ \A r \in inflight : r.rec # i
            /\ HasEvent(i, {"failed"}) => dbFaults > 0
            /\ (idx = i /\ HasEvent(i, {"crawl-call"})) =>
                  /\ description = <<"Package from ", deps[i].ecosystem, " ecosystem">>
                  /\ cpc = "ret" => cret = NoUrlNote
            /\ HasEvent(i, {"upsert"}) =>
                  /\ results[i].description =
                        <<"Package from ", deps[i].ecosystem, " ecosystem">>
                  /\ results[i].documentation = NoUrlNote
                  /\ \E r \in store :
                        /\ Key(r) = Key(deps[i])
                        /\ r.description = results[i].description
                        /\ r.documentation \in {NoUrlNote, JSONStringify(NoUrlNote)}
                  /\ pc = "done" => Len(results) = Len(deps)

C12_Witness ==
    /\ pc = "done"
    /\ Len(deps) = 2
    /\ deps[1].ecosystem = "swift"
    /\ deps[2].ecosystem = "npm"
    /\ HasEvent(1, {"upsert"})
    /\ HasEvent(2, {"upsert"})
    /\ firecrawlApiKey
    /\ results[1].documentation = NoUrlNote

C13_WitnessAbsent ==
    /\ getResult # Null
    /\ getResult.key = <<"pypi", "lodash", <<"4">>>>
    /\ getResult.value = Null
    /\ <<"npm", "lodash", <<"4">>>> \in StoreKeys

\* The stored entries that match every field of ecosystem, name and
\* version the filters supply.
MatchingByName(f) ==
    {r \in store :
        /\ f.ecosystem # NoFilter => r.ecosystem = f.ecosystem
        /\ f.name # NoFilter => r.name = f.name
        /\ f.version # NoVersion => r.version = f.version}

\* The stored entries that match every field of ecosystem, package and
\* version the filters supply, the package against the name of the entry.
MatchingByPackage(f) ==
    {r \in store :
        /\ f.ecosystem # NoFilter => r.ecosystem = f.ecosystem
        /\ f.package # NoFilter => r.name = f.package
        /\ f.version # NoVersion => r.version = f.version}

\* C14, as stated: queryPackages with filters of the fields ecosystem, name
\* and version returns exactly the stored entries matching every supplied
\* field.
C14_FilterByName ==
    (queryResult # NoQuery /\ queryResult.filters.package = NoFilter) =>
        LET rows == queryResult.rows
            expected == MatchingByName(queryResult.filters)
        IN /\ {Entry(rows[i]) : i \in 1..Len(rows)} = {Entry(r) : r \in expected}
           /\ Len(rows) = Cardinality(expected)

\* C14, amended: queryPackages reads the fields ecosystem, package and
\* version of the filters and returns exactly the stored entries matching
\* every one supplied, each once; a field name is not read.
C14_FilterByPackage ==
    queryResult # NoQuery =>
        LET rows == queryResult.rows
            expected == MatchingByPackage(queryResult.filters)
        IN /\ {Entry(rows[i]) : i \in 1..Len(rows)} = {Entry(r) : r \in expected}
           /\ Len(rows) = Cardinality(expected)

C14_Witness ==
    /\ queryResult # NoQuery
    /\ queryResult.filters.package = "lodash"
    /\ queryResult.filters.version = <<"10">>
    /\ queryResult.filters.ecosystem = NoFilter
    /\ Len(queryResult.rows) = 1
    /\ Cardinality(store) = 3
    /\ queryResult.rows[1].version = <<"10">>

\* a comes no later than b in the order by name, then by version, both
\* compared as strings.
NameThenVersion(a, b) ==
    \/ TokenRank(a.name) < TokenRank(b.name)
    \/ /\ a.name = b.name
       /\ (a.version = b.version \/ SeqLess(a.version, b.version))

\* C15: the list queryPackages returns is in ascending order of the name
\* and, among entries of one name, in ascending order of the version, the
\* two compared as the strings they are stored as.
C15_QueryOrder ==
    queryResult # NoQuery =>
        \A i \in 1..Len(queryResult.rows), j \in 1..Len(queryResult.rows) :
            i < j => NameThenVersion(queryResult.rows[i], queryResult.rows[j])

C15_Witness ==
    /\ queryResult # NoQuery
    /\ dbType = "mongodb"
    /\ Len(queryResult.rows) = 3
    /\ queryResult.rows[1].name = "express"
    /\ queryResult.rows[2].name = "lodash"
    /\ queryResult.rows[2].version = <<"10">>
    /\ queryResult.rows[3].name = "lodash"
    /\ queryResult.rows[3].version = <<"4">>
    /\ log[1].p.name = "lodash"
    /\ log[1].p.version = <<"4">>

(* Claims about the Scanner, checked under SpecScanner. *)

\* The range operators a declared npm version can start with.
RangeOperators == {"^", "~", ">=", "<=", ">", "<", "="}

\* The declared version without its leading range operators.
RECURSIVE StripRangeOperators(_)
StripRangeOperators(v) ==
    IF v = <<>> THEN <<>>
    ELSE IF Head(v) \in RangeOperators THEN StripRangeOperators(Tail(v))
    ELSE v

\* What the claim reads of a record.
Emitted(r) ==
    [ecosystem |-> r.ecosystem, name |-> r.name, version |-> r.version,
     isDevDependency |-> r.isDevDependency]

\* The record the claim expects for an entry of a package.json section.
ExpectedNpm(e, dev) ==
    [ecosystem |-> "npm", name |-> e.name, version |-> StripRangeOperators(e.value.text),
     isDevDependency |-> dev]

\* The records of the scan that come from the file, in order.
RecordsOf(path) == SelectSeq(deps, LAMBDA r : r.manifestPath = path)

\* package.json is present, is JSON, and declares every version as a string.
WellFormedPackageJson ==
    /\ input # Null
    /\ input.kind = "dir"
    /\ "json" \in DOMAIN input.files.packageJson
    /\ LET c == input.files.packageJson.json
       IN /\ \A i \in 1..Len(c.dependencies) : c.dependencies[i].value.type = "string"
          /\ \A i \in 1..Len(c.devDependencies) : c.devDependencies[i].value.type = "string"

\* C16: after the scan of a directory with a well-formed package.json, the
\* records of the file are one per key of dependencies (isDevDependency
\* false) followed by one per key of devDependencies (true), each with the
\* declared name and the declared version without its leading range
\* operators.
C16_PackageJsonRecords ==
    (pc = "scanned" /\ WellFormedPackageJson) =>
        LET c == input.files.packageJson.json
            got == RecordsOf("package.json")
            want == [i \in 1..Len(c.dependencies) |-> ExpectedNpm(c.dependencies[i], FALSE)]
                    \o [i \in 1..Len(c.devDependencies) |->
                            ExpectedNpm(c.devDependencies[i], TRUE)]
        IN [i \in 1..Len(got) |-> Emitted(got[i])] = want

\* The part of C16 the code meets: the number, the names and the flags of
\* the records, and the version of every entry whose declared version is
\* range operators followed by a digit.
C16_RangePrefixStripped ==
    (pc = "scanned" /\ WellFormedPackageJson) =>
        LET c == input.files.packageJson.json
            got == RecordsOf("package.json")
            all == c.dependencies \o c.devDependencies
        IN /\ Len(got) = Len(all)
           /\ \A i \in 1..Len(all) :
                 /\ got[i].ecosystem = "npm"
                 /\ got[i].name = all[i].name
                 /\ got[i].isDevDependency = (i > Len(c.dependencies))
                 /\ (StripRangeOperators(all[i].value.text) # <<>>
                     /\ Head(StripRangeOperators(all[i].value.text)) \in DigitTokens) =>
                       got[i].version = StripRangeOperators(all[i].value.text)

\* The manifest is present and its parser throws.
Unparseable(path) ==
    /\ FileContent(input.files, path) # Null
    /\ "error" \in DOMAIN ParseManifestFile(path, FileContent(input.files, path))

\* The manifest is present and its parser returns records.
Parseable(path) ==
    /\ FileContent(input.files, path) # Null
    /\ "value" \in DOMAIN ParseManifestFile(path, FileContent(input.files, path))

\* C17: scan never fails because of one manifest. It never ends with an
\* error; when it returns, a manifest that is absent or that its parser
\* rejects has contributed no record (a rejected one is logged as a
\* warning), and every other manifest has contributed all the records of its
\* parser, in the order of the manifests.
C17_ScanSurvivesManifest ==
    /\ pc \in {"scan", "scan-loop", "scanned"}
    /\ pc = "scanned" =>
          /\ \A k \in 1..Len(ManifestPatterns) :
                LET path == ManifestPatterns[k]
                IN IF Parseable(path)
                   THEN RecordsOf(path) =
                            ParseManifestFile(path, FileContent(input.files, path)).value
                   ELSE RecordsOf(path) = <<>>
          /\ \A k \in 1..Len(ManifestPatterns) :
                Unparseable(ManifestPatterns[k]) <=>
                    \E j \in 1..Len(log) :
                        log[j].ev = "warn" /\ log[j].file = ManifestPatterns[k]
          /\ \A i \in 1..Len(deps), j \in 1..Len(deps) :
                (i < j) =>
                    \E a \in 1..Len(ManifestPatterns), b \in 1..Len(ManifestPatterns) :
                        /\ a <= b
                        /\ deps[i].manifestPath = ManifestPatterns[a]
                        /\ deps[j].manifestPath = ManifestPatterns[b]

\* A scan has returned the record of requirements.txt although package.json
\* was rejected.
C17_Witness ==
    /\ pc = "scanned"
    /\ Unparseable("package.json")
    /\ Parseable("requirements.txt")
    /\ Len(deps) = 1
    /\ deps[1].ecosystem = "pypi"
    /\ Len(log) = 1

(* Claims about the scraping service, checked under SpecCrawler. *)

\* The requests call c has sent to the scraping service.
ScrapeRequests(c) ==
    {k \in 1..Len(log) :
        log[k].rec = c /\ log[k].ev = "crawl-request" /\ "to" \in DOMAIN log[k]}

\* The scraping service has failed call c, or has reported a failure.
ScrapeFailed(c) ==
    \E k \in 1..Len(log) :
        log[k].rec = c /\ log[k].ev = "crawl-failed" /\ "to" \in DOMAIN log[k]

\* The scraping service has served call c.
ScrapeServed(c) ==
    \E k \in 1..Len(log) :
        log[k].rec = c /\ log[k].ev = "crawl-response" /\ "to" \in DOMAIN log[k]

\* The j-th call found nothing in the cache: no earlier call had its record.
FirstCall(j) == \A i \in 1..(j - 1) : results[i].dep # results[j].dep

\* A record of the raw-fetch path for a documentation URL: the extracted
\* text, or the error of the GET.
RawFetchRecord(doc) ==
    /\ "url" \in DOMAIN doc
    /\ \/ "source" \in DOMAIN doc /\ doc.source = "basic_fetch"
       \/ "error" \in DOMAIN doc

\* What C18 says of a fallback and of a crawler without credential.
FallbackAndNoCredential(j) ==
    LET c == results[j].call
        doc == results[j].doc
    IN /\ ScrapeFailed(c) => RawFetchRecord(doc) /\ PageRequests(c) # {}
       /\ ScrapeServed(c) => doc.source = "firecrawl"
       /\ ~firecrawlApiKey =>
             /\ ScrapeRequests(c) = {}
             /\ FirstCall(j) => (RawFetchRecord(doc) \/ doc = NoUrlNote)

\* C18, as stated: with a credential every uncached crawl sends exactly one
\* request to the scraping service, and a failed request is followed by the
\* raw-fetch path, whose record is returned; without a credential the
\* service is never contacted.
C18_OneScrapePerUncachedCrawl ==
    \A j \in 1..Len(results) :
        /\ (firecrawlApiKey /\ FirstCall(j)) =>
              Cardinality(ScrapeRequests(results[j].call)) = 1
        /\ FallbackAndNoCredential(j)

\* getDocumentationUrl gives a URL for the record.
HasDocUrl(dep) == dep.ecosystem = "npm" \/ StaticDocUrl(dep) # NoUrl

\* C18, amended: with a credential an uncached crawl sends exactly one
\* request to the scraping service when a documentation URL is derived for
\* the record, and none when no URL is derived (the note record is
\* returned); a cached crawl sends none; a failed request is followed by the
\* raw-fetch path, whose record is returned; without a credential the
\* service is never contacted. No call ever sends a second request.
C18_OneScrapePerCrawlWithUrl ==
    /\ \A c \in 1..idx : Cardinality(ScrapeRequests(c)) <= 1
    /\ \A j \in 1..Len(results) :
          LET c == results[j].call
          IN /\ (firecrawlApiKey /\ FirstCall(j) /\ HasDocUrl(results[j].dep)) =>
                    Cardinality(ScrapeRequests(c)) = 1
             /\ (firecrawlApiKey /\ FirstCall(j) /\ ~HasDocUrl(results[j].dep)) =>
                    ScrapeRequests(c) = {} /\ results[j].doc = NoUrlNote
             /\ ~FirstCall(j) => ScrapeRequests(c) = {}
             /\ FallbackAndNoCredential(j)

\* With a credential, a crawl without URL has returned the note, and a crawl
\* whose scrape request failed has returned the text of the raw fetch.
C18_Witness ==
    /\ firecrawlApiKey
    /\ Len(results) = 2
    /\ ~HasDocUrl(results[1].dep)
    /\ results[1].doc = NoUrlNote
    /\ HasDocUrl(results[2].dep)
    /\ Cardinality(ScrapeRequests(results[2].call)) = 1
    /\ ScrapeFailed(results[2].call)
    /\ results[2].doc.source = "basic_fetch"

(* Claims about getDocumentationUrl, checked under SpecCrawler. *)

\* The step in which getDocumentationUrl returns for an npm record.
NpmUrlReturned == cpc = "url" /\ cpc' = "haveUrl" /\ cdep.ecosystem = "npm"

\* The request to the registry was answered on that step.
LookupAnswered == httpFaults' = httpFaults

\* C19, as stated: for an npm record getDocumentationUrl returns the
\* repository URL the registry metadata declares whenever it declares one,
\* and the npmjs.com page only when none is declared or the lookup fails.
C19_DeclaredRepositoryPreferred ==
    [][NpmUrlReturned =>
          IF LookupAnswered /\ DeclaredRepository(cdep.name) # NoUrl
          THEN docUrl' = StripGitAffixes(DeclaredRepository(cdep.name))
          ELSE docUrl' = NpmPackagePage(cdep)]_vars

\* C19, amended: for an npm record getDocumentationUrl returns the declared
\* repository URL, without a leading 'git+' and a trailing '.git', whenever
\* the registry metadata declares one on github.com, and the npmjs.com page
\* when none is declared, when the declared one is not on github.com, or
\* when the lookup fails.
C19_GithubRepositoryPreferred ==
    [][NpmUrlReturned =>
          IF /\ LookupAnswered
             /\ DeclaredRepository(cdep.name) # NoUrl
             /\ IncludesGithub(DeclaredRepository(cdep.name))
          THEN docUrl' = StripGitAffixes(DeclaredRepository(cdep.name))
          ELSE docUrl' = NpmPackagePage(cdep)]_vars

\* With every request answered, a first crawl got the github.com repository
\* of its package and the current one got the npmjs.com page of a package
\* whose repository is on another host.
C19_Witness ==
    /\ httpFaults = 0
    /\ Len(results) = 1
    /\ results[1].dep.ecosystem = "npm"
    /\ "url" \in DOMAIN results[1].doc
    /\ results[1].doc.url = <<"https://github.com/", results[1].dep.name>>
    /\ cpc = "haveUrl"
    /\ cdep.ecosystem = "npm"
    /\ DeclaredRepository(cdep.name) # NoUrl
    /\ docUrl = NpmPackagePage(cdep)

(* Claims about the requests of the Fetcher, checked under Spec, where each
   record gets at most one fetchDescription call. *)

\* The HTTP requests the Fetcher has sent for record i.
FetchRequests(i) ==
    {k \in 1..Len(log) : log[k].rec = i /\ log[k].ev = "fetch-request"}

\* C20, as stated: one fetchDescription call sends at most one HTTP request,
\* whatever the ecosystem and also when the request fails.
C20_SingleAttempt ==
    \A i \in 1..Len(deps) : Cardinality(FetchRequests(i)) <= 1

\* C20, amended: one fetchDescription call sends at most one HTTP request,
\* also when it fails, for every ecosystem but PyPI; for a PyPI record a
\* failed request is followed by one request without the version, and by no
\* other, so the call sends at most two.
C20_SingleAttemptButPyPI ==
    \A i \in 1..Len(deps) :
        /\ FetchKind(deps[i]) # "pypi" => Cardinality(FetchRequests(i)) <= 1
        /\ FetchKind(deps[i]) = "pypi" =>
              /\ Cardinality(FetchRequests(i)) <= 2
              /\ Cardinality(FetchRequests(i)) = 2 => httpFaults >= 1
        /\ FetchKind(deps[i]) \in {"unsupported", "go-static", "maven-invalid"} =>
              FetchRequests(i) = {}

\* The request for a PyPI record failed, the request without the version was
\* answered, and the call returned the description of the registry.
C20_Witness ==
    \E i \in 1..Len(deps) :
        /\ FetchKind(deps[i]) = "pypi"
        /\ Cardinality(FetchRequests(i)) = 2
        /\ idx = i
        /\ fpc = "ret"
        /\ fret = RegistryDescription(deps[i])

(* Claims about failures within a record, checked under Spec. *)

\* The registry request of record i failed and fetchDescription gave up.
FetchFailed(i) == HasEvent(i, {"fetch-failed"})

\* The GET of the documentation page of record i failed and was not retried.
CrawlFailed(i) ==
    \E k \in PageFailures(i) : ~ShouldRetry(log[k].status, log[k].attempt)

\* The string fetchDescription returns for the record after a failure.
FailurePlaceholder(dep) ==
    IF FetchKind(dep) = "github" THEN <<"GitHub Go module ", dep.name>>
    ELSE FailedDescription(dep)

\* What getPackageDocumentation gives for the key of the record.
StoredFor(dep) ==
    GetPackageDocumentation(dbType, store, dep.name, dep.version, dep.ecosystem)

\* C21: a record whose registry request or documentation crawl fails is not
\* dropped. fetchDescription returns the placeholder string and
\* crawlDocumentation a record with an error field, processDependencies goes
\* on to storePackage with them, and once the upsert is done the Store holds
\* the entry of the record with that description / that documentation.
C21_FailedRecordStored ==
    [](\A i \in 1..Len(deps) :
          LET fetchFailed == FetchFailed(i)
              crawlFailed == CrawlFailed(i)
              upserted == HasEvent(i, {"upsert"})
          IN /\ (idx = i /\ fpc = "ret" /\ fetchFailed) => fret = FailurePlaceholder(deps[i])
             /\ (idx = i /\ cpc = "ret" /\ crawlFailed) => ErrorNoted(cret)
             /\ (idx > i /\ (fetchFailed \/ crawlFailed)) =>
                   \/ upserted
                   \/ dbFaults > 0 /\ HasEvent(i, {"failed"})
             /\ (upserted /\ fetchFailed) =>
                   /\ Len(results) >= i
                   /\ results[i].description = FailurePlaceholder(deps[i])
                   /\ \A e \in StoredFor(deps[i]) :
                         e # Null /\ e.description = FailurePlaceholder(deps[i])
             /\ (upserted /\ crawlFailed) =>
                   /\ Len(results) >= i
                   /\ ErrorNoted(results[i].documentation)
                   /\ \A e \in StoredFor(deps[i]) :
                         e # Null /\ ErrorNoted(e.documentation))

\* The registry request of a record failed and the Store holds its entry
\* with the placeholder description.
C21_Witness ==
    \E i \in 1..Len(deps) :
        /\ FetchFailed(i)
        /\ HasEvent(i, {"upsert"})
        /\ \E e \in StoredFor(deps[i]) :
              e # Null /\ e.description = FailedDescription(deps[i])

\* The GET of the documentation page of a record failed and the Store holds
\* its entry with the error-tagged documentation.
C21_WitnessCrawl ==
    \E i \in 1..Len(deps) :
        /\ CrawlFailed(i)
        /\ HasEvent(i, {"upsert"})
        /\ \E e \in StoredFor(deps[i]) : e # Null /\ ErrorNoted(e.documentation)

(* Claims about go.mod, checked under SpecScanner. *)

\* The (name, version) of the modules a go.mod requires, read by the grammar
\* of the file: a require directive with a module and a version, or a block
\* from "require (" to ")" with a module and a version on each line, or the
\* whole block on one line.
RECURSIVE RequiredModules(_, _)
RequiredModules(lines, inBlock) ==
    IF lines = <<>> THEN <<>>
    ELSE LET line == Head(lines)
             rest == Tail(lines)
         IN IF inBlock
            THEN IF Head(line) = ")" THEN RequiredModules(rest, FALSE)
                 ELSE <<[name |-> line[1], version |-> <<line[2]>>]>>
                      \o RequiredModules(rest, TRUE)
            ELSE IF Head(line) = "require" /\ Len(line) = 2 /\ line[2] = "("
            THEN RequiredModules(rest, TRUE)
            ELSE IF Head(line) = "require" /\ line[2] = "("
            THEN <<[name |-> line[3], version |-> <<line[4]>>]>>
                 \o RequiredModules(rest, FALSE)
            ELSE IF Head(line) = "require"
            THEN <<[name |-> line[2], version |-> <<line[3]>>]>>
                 \o RequiredModules(rest, FALSE)
            ELSE RequiredModules(rest, FALSE)

\* C22: after the scan of a directory with a go.mod, the records of the file
\* are go records, one for every required module with its name and version,
\* for single-line require directives and for the modules of a require
\* block alike.
C22_GoModRecords ==
    (pc = "scanned" /\ input.kind = "dir" /\ input.files.goMod # Null) =>
        LET got == RecordsOf("go.mod")
            want == RequiredModules(input.files.goMod.lines, FALSE)
        IN /\ \A i \in 1..Len(got) : got[i].ecosystem = "go"
           /\ [i \in 1..Len(got) |-> [name |-> got[i].name, version |-> got[i].version]]
                 = want

\* The part of C22 the code meets: the modules of single-line require
\* directives and of a block written on one line are emitted, and nothing
\* else is.
C22_SingleLineRecords ==
    (pc = "scanned" /\ input.kind = "dir" /\ input.files.goMod # Null) =>
        LET got == RecordsOf("go.mod")
            lines == input.files.goMod.lines
            direct == SelectSeq(lines, LAMBDA l : Head(l) = "require" /\ Len(l) >= 3)
        IN /\ Len(got) = Len(direct)
           /\ \A i \in 1..Len(got) :
                 /\ got[i].ecosystem = "go"
                 /\ got[i].name = (IF direct[i][2] = "(" THEN direct[i][3] ELSE direct[i][2])
                 /\ got[i].version =
                       <<IF direct[i][2] = "(" THEN direct[i][4] ELSE direct[i][3]>>

(* Claims about the scan command on a directory, checked under
   SpecRepository. *)

\* The entries package.json declares, in the order of its records.
DeclaredEntries ==
    input.files.packageJson.json.dependencies
        \o input.files.packageJson.json.devDependencies

\* The declared version holds the substring 'workspace:'.
DeclaredWorkspace(e) == \E k \in 1..Len(e.value.text) : e.value.text[k] = "workspace:"

\* C23: in a scan of a directory, a package.json dependency declared with a
\* version that holds 'workspace:' is never sent to the Fetcher or the
\* Crawler, and no request is made for it: its record takes the workspace
\* skip of processDependencies.
C23_DeclaredWorkspaceSkipped ==
    (pc \notin {"scan", "scan-loop", "scanned"}) =>
        \A i \in 1..Len(DeclaredEntries) :
            DeclaredWorkspace(DeclaredEntries[i]) =>
                /\ deps[i].name = DeclaredEntries[i].name
                /\ ~HasEvent(i, {"get", "fetch-call", "fetch-request", "crawl-call",
                                 "crawl-request"})
                /\ (idx > i) => HasEvent(i, {"workspace"})

\* What the code does instead: the record of such a dependency has lost the
\* 'workspace:' of its version, is looked up in the Store and is sent on to the Fetcher.
C23_DeclaredWorkspaceFetched ==
    (pc \notin {"scan", "scan-loop", "scanned"}) =>
        \A i \in 1..Len(DeclaredEntries) :
            DeclaredWorkspace(DeclaredEntries[i]) =>
                /\ deps[i].name = DeclaredEntries[i].name
                /\ ~IsWorkspace(deps[i])
                /\ ~HasEvent(i, {"workspace"})
                /\ (idx > i) => HasEvent(i, {"get", "failed"})

(* Claims about the list processDependencies returns, checked under Spec. *)

\* C24: processDependencies gives one result per input record, in input
\* order. While record idx is worked on the list holds the results of the
\* records before it (and its own once it is stored), result i carries the
\* ecosystem, name and version of record i, and the list returned has the
\* length of the input.
C24_OneResultPerRecord ==
    [](pc \in {"loop", "get", "fetch", "crawl", "store", "pause", "done"} =>
          /\ Len(results) = (IF pc = "pause" THEN idx ELSE idx - 1)
          /\ \A i \in 1..Len(results) : Key(results[i]) = Key(deps[i])
          /\ pc = "done" => Len(results) = Len(deps))

\* A run has returned the results of a workspace record and of a record
\* whose Store operation raised; another has returned those of a record
\* found in the Store and of a record stored.
C24_Witness ==
    /\ pc = "done"
    /\ Len(deps) = 2
    /\ Len(results) = 2
    /\ HasEvent(1, {"workspace"})
    /\ "error" \in DOMAIN results[2]

C24_WitnessFoundAndStored ==
    /\ pc = "done"
    /\ Len(deps) = 2
    /\ Len(results) = 2
    /\ \E k \in 1..Len(log) : log[k].rec = 1 /\ log[k].ev = "get" /\ log[k].found
    /\ HasEvent(2, {"upsert"})

(* Claims about failures of the Store, checked under Spec. *)

\* The step in which getPackageDocumentation or storePackage raises.
StoreRaised == dbFaults' = dbFaults + 1

\* C25: when a Store operation raises for a record, the step appends the
\* error-tagged result of the record, leaves the Store as it was and moves
\* to the next record; the record gets no upsert and no pause, and the run
\* still works on every later record and returns a result for each.
C25_StoreFailureIsolated ==
    /\ [][StoreRaised =>
            /\ pc \in {"get", "store"}
            /\ results' = Append(results, ErrorResult(deps[idx], "database error"))
            /\ store' = store
            /\ lastID' = lastID
            /\ inflight' = inflight
            /\ idx' = idx + 1
            /\ pc' = "loop"]_vars
    /\ [](\A i \in 1..Len(deps) :
            HasEvent(i, {"failed"}) =>
                /\ ~HasEvent(i, {"upsert", "pause"})
                /\ "error" \in DOMAIN results[i]
                /\ pc = "done" =>
                      /\ Len(results) = Len(deps)
                      /\ \A j \in (i + 1)..Len(deps) :
                            HasEvent(j, {"workspace", "get", "failed"}))

\* storePackage raised for the first record, whose key is not in the Store,
\* and the second record was stored.
C25_Witness ==
    /\ pc = "done"
    /\ Len(deps) = 2
    /\ HasEvent(1, {"get"})
    /\ HasEvent(1, {"failed"})
    /\ "error" \in DOMAIN results[1]
    /\ Key(deps[1]) \notin StoreKeys
    /\ HasEvent(2, {"upsert"})
    /\ Key(deps[2]) \in StoreKeys

(* Claims about the cache of the Fetcher, checked under SpecFetcher, where
   idx numbers the fetchDescription calls and results holds what each
   returned. *)

\* The string is the placeholder of a fetchDescription call that raised inside.
IsFailurePlaceholder(desc) == desc # <<>> /\ Head(desc) = "Failed to fetch description: "

\* The calls before the j-th that were made for its triple and did not raise.
EarlierSuccesses(j) ==
    {i \in 1..(j - 1) :
        /\ CacheKey(results[i].dep) = CacheKey(results[j].dep)
        /\ ~IsFailurePlaceholder(results[i].desc)}

\* The calls before the j-th that were made for its triple.
EarlierFetches(j) ==
    {i \in 1..(j - 1) : CacheKey(results[i].dep) = CacheKey(results[j].dep)}

\* C26: the cache of the Fetcher holds the results of the calls that did not
\* raise, and no 'Failed to fetch description' placeholder. After a call
\* that did not raise (the placeholder of an unsupported ecosystem
\* included), a call for the same triple sends no request and returns the
\* same string; when every earlier call for the triple returned the failure
\* placeholder, the call sends the registry request again.
C26_FetcherCache ==
    /\ \A key \in DOMAIN fetcherCache : ~IsFailurePlaceholder(fetcherCache[key])
    /\ \A j \in 1..Len(results) :
          /\ ~IsFailurePlaceholder(results[j].desc) =>
                /\ CacheKey(results[j].dep) \in DOMAIN fetcherCache
                /\ fetcherCache[CacheKey(results[j].dep)] = results[j].desc
          /\ \A i \in EarlierSuccesses(j) :
                /\ FetchRequests(results[j].call) = {}
                /\ results[j].desc = results[i].desc
          /\ (EarlierFetches(j) # {} /\ EarlierSuccesses(j) = {}) =>
                FetchRequests(results[j].call) # {}

\* A first call failed, a second call for the same triple sent the request
\* again and got the description, and a third returned it without a request.
C26_Witness ==
    /\ Len(results) = 3
    /\ results[1].dep = results[2].dep
    /\ results[2].dep = results[3].dep
    /\ IsFailurePlaceholder(results[1].desc)
    /\ FetchRequests(results[2].call) # {}
    /\ results[2].desc = RegistryDescription(results[2].dep)
    /\ FetchRequests(results[3].call) = {}
    /\ results[3].desc = results[2].desc

\* A call for a package of an unsupported ecosystem returned twice the same
\* placeholder, without a request.
C26_WitnessUnsupported ==
    /\ Len(results) = 2
    /\ results[1].dep = results[2].dep
    /\ FetchKind(results[1].dep) = "unsupported"
    /\ results[2].desc = StaticDescription(results[1].dep)
    /\ log # <<>>
    /\ \A k \in 1..Len(log) : log[k].ev # "fetch-request"

(* Claims about the end of fetchBasicDocumentation, checked under
   SpecRawFetch. *)

\* A record of one of the three shapes fetchBasicDocumentation returns.
DefinedRecord(doc) ==
    \/ doc = NoUrlNote
    \/ {"url", "content"} \subseteq DOMAIN doc
    \/ {"url", "error"} \subseteq DOMAIN doc

\* fetchBasicDocumentation is at work.
RawFetchRunning == cpc \in {"url", "haveUrl", "attempt", "delay"}

\* C27: fetchBasicDocumentation always ends, after at most 3 attempts,
\* whatever the answers to its requests, and what it returns is the note
\* record, a record with url and content, or a record with url and error;
\* never undefined and never the error record of crawlDocumentation's catch.
C27_RawFetchTerminates ==
    /\ [](\A c \in 1..idx : Cardinality(PageRequests(c)) <= 3)
    /\ [](attempt <= 3)
    /\ [](cpc = "ret" => DefinedRecord(cret))
    /\ [](\A j \in 1..Len(results) : DefinedRecord(results[j].doc))
    /\ RawFetchRunning ~> (cpc = "ret")

\* A call has returned an error record after three forbidden answers, and
\* the next call is at its third attempt.
C27_Witness ==
    /\ Len(results) = 1
    /\ Cardinality(PageRequests(1)) = 3
    /\ {"url", "error"} \subseteq DOMAIN results[1].doc
    /\ cpc = "attempt"
    /\ attempt = 3

====
